---- MODULE Spec2Model ----
(***************************************************************************)
(* Model of the authorization pipeline of the agentic wallet:              *)
(* PolicyEngine (kill switch, evaluate, policy state), the callers of      *)
(* WalletService.executeTransaction (AgentRuntime.runCycle and             *)
(* WalletService.agentToAgentTransfer) and the clock.                      *)
(*                                                                         *)
(* evaluate is an async function: everything before its single await       *)
(* (the simulation) runs as one step, everything after it as another.      *)
(***************************************************************************)
EXTENDS Integers, Sequences, FiniteSets, TLC

\* ---------------------------------------------------------------- bounds
\* clock steps (of half an hour) of the concurrent specification
MaxTicks == 1
\* clock steps (of half an hour) of the serial specifications
SerialTicks == 4
\* evaluate calls that can be suspended at the same time
MaxCalls == 1
\* cycles of the runtime of each agent
MaxCycles == 2
\* operations of the wallet service in progress at once
MaxWalletOps == 2
\* keypairs generated
MaxKeys == 2
\* calls of start on one runtime
MaxStarts == 2
\* cycles counted by a runtime
MaxCycle == 3
\* characters of a text given to the parser
MaxTextLen == 2
\* bytes of a public key (32 in the program)
PUBLIC_KEY_LENGTH == 1
\* callbacks of each kind registered in the swarm
MaxCallbacks == 2
\* voters registered in the swarm
MaxVoters == 3
\* operations submitted in one window scenario
MaxOps == 3
\* clock steps (of half an hour) of the specification of the checks
ChecksTicks == 1

\* ------------------------------------------------------ program constants
HOUR_MS == 3600000
TWO_HOURS_MS == 7200000
A2A_CONFIDENCE == 100

\* ------------------------------------------------------------ value sets
Agents == {"A", "B"}
Callers == Agents \cup {"direct"}
Calls == 1..MaxCalls
HALF_HOUR_MS == HOUR_MS \div 2
StartTime == HALF_HOUR_MS
undefined == -1
Reasons == {"r1", "r2"}
Lamports == {1, 2}

TRANSFER_SOL == "TRANSFER_SOL"
TRANSFER_SPL == "TRANSFER_SPL"
SWAP == "SWAP"
STAKE == "STAKE"
CUSTOM == "CUSTOM"

\* TransactionIntent: amount is params.lamports (TRANSFER_SOL), params.amount
\* (TRANSFER_SPL) or params.amountIn (SWAP); confidence is in percent.
TransactionIntent(agentId, type, amount, programId, confidence) ==
  [agentId |-> agentId, type |-> type, amount |-> amount,
   programId |-> programId, confidence |-> confidence]

Intents ==
  { TransactionIntent("A", TRANSFER_SOL, 1, "", 90),
    TransactionIntent("A", TRANSFER_SOL, 2, "", 90),
    TransactionIntent("B", TRANSFER_SOL, 2, "", 90) }

\* AgentPolicy
BasePolicy ==
  [maxTransactionLamports |-> 2, maxHourlySpendLamports |-> 3,
   txCooldownMs |-> 0, maxTxPerHour |-> 2, allowlistedPrograms |-> {"P1"},
   requireSimulation |-> FALSE, allowSolTransfers |-> TRUE,
   allowSplTransfers |-> TRUE, minConfidence |-> 50]

SimPolicy == [BasePolicy EXCEPT !.requireSimulation = TRUE]
CooldownPolicy == [BasePolicy EXCEPT !.txCooldownMs = HALF_HOUR_MS]
RatePolicy == [BasePolicy EXCEPT !.maxTxPerHour = 1]
WindowPolicy(H) == [BasePolicy EXCEPT !.maxHourlySpendLamports = H, !.maxTxPerHour = 10]

\* A policy under which every check of evaluate can fail.
StrictPolicy ==
  [maxTransactionLamports |-> 2, maxHourlySpendLamports |-> 3,
   txCooldownMs |-> HALF_HOUR_MS, maxTxPerHour |-> 1, allowlistedPrograms |-> {"P1"},
   requireSimulation |-> TRUE, allowSolTransfers |-> FALSE,
   allowSplTransfers |-> FALSE, minConfidence |-> 50]
\* minConfidence is optional
NoConfidencePolicy == [SimPolicy EXCEPT !.minConfidence = undefined]
CheckPolicies == { SimPolicy, StrictPolicy, NoConfidencePolicy }

\* Intents of every type, below and above the per-transaction limit, below and
\* above the confidence threshold, for an allowlisted and for another program.
CheckIntents ==
  { TransactionIntent("A", TRANSFER_SOL, amount, "", confidence) :
      amount \in {1, 3}, confidence \in {40, 90} }
  \cup { TransactionIntent("A", SWAP, amount, "", 90) : amount \in {1, 3} }
  \cup { TransactionIntent("A", TRANSFER_SPL, 3, "", 90),
         TransactionIntent("A", STAKE, 0, "", 90),
         TransactionIntent("A", CUSTOM, 0, "P1", 90) }
  \cup { TransactionIntent("A", CUSTOM, 0, "P2", confidence) : confidence \in {40, 90} }

SerialIntents == { i \in Intents : i.agentId = "A" }

Policies == { BasePolicy, SimPolicy }
SerialPolicies == { BasePolicy, SimPolicy, CooldownPolicy, RatePolicy }
WindowPolicies == { WindowPolicy(2), WindowPolicy(3) }

\* SimulationResult of WalletService.simulateTransaction: success, or a failed
\* simulation or an error caught inside simulateTransaction.
SimulationResults ==
  { [success |-> TRUE, error |-> ""],
    [success |-> FALSE, error |-> "InstructionError"] }

\* What happens inside WalletService.simulateTransaction: the key does not
\* load, the RPC call fails, the simulation reports an error, or it passes.
SimulationOutcomes == {"key", "transport", "failed", "passed"}

\* WalletService.simulateTransaction: the SimulationResult it returns. Every
\* error thrown inside it (loadKey, getLatestBlockhash, the unsupported type
\* of buildTransaction) is caught and returned as a failed simulation.
simulateTransaction(intent, outcome) ==
  IF outcome = "key"
    THEN [success |-> FALSE, error |-> "Wallet not found"]
  ELSE IF outcome = "transport"
    THEN [success |-> FALSE, error |-> "fetch failed"]
  ELSE IF intent.type \notin {TRANSFER_SOL, TRANSFER_SPL, SWAP}
    THEN [success |-> FALSE, error |-> "Unsupported transaction type"]
  ELSE IF outcome = "failed"
    THEN [success |-> FALSE, error |-> "InstructionError"]
  ELSE [success |-> TRUE, error |-> ""]

\* ---------------------------------------------------------- SwarmConsensus
\* Amounts in SOL are kept in lamports (SOL x LAMPORTS_PER_SOL), quorum and
\* approval rate in percent or as the pair <<approvals, votes>>, sentiment in
\* thousandths and confidence in ten-thousandths: the comparisons of the code
\* are on the exact values.
LAMPORTS_PER_SOL == 1000000000
DEFAULT_QUORUM == 60
DEFAULT_AGGRESSIVE_RISK_TOLERANCE == 20000000
DEFAULT_CONSERVATIVE_THRESHOLD == 15000000
DEFAULT_SYSTEMATIC_NORM == 5000000

Perspectives == {"aggressive", "conservative", "systematic"}

\* SwarmConfig after the defaults of the constructor.
SwarmConfig(quorum, aggressiveRiskTolerance, conservativeThreshold, systematicNorm) ==
  [quorum |-> quorum, aggressiveRiskTolerance |-> aggressiveRiskTolerance,
   conservativeThreshold |-> conservativeThreshold, systematicNorm |-> systematicNorm]

DefaultSwarmConfig ==
  SwarmConfig(DEFAULT_QUORUM, DEFAULT_AGGRESSIVE_RISK_TOLERANCE,
              DEFAULT_CONSERVATIVE_THRESHOLD, DEFAULT_SYSTEMATIC_NORM)

SwarmConfigs ==
  { DefaultSwarmConfig,
    [DefaultSwarmConfig EXCEPT !.quorum = 100],
    [DefaultSwarmConfig EXCEPT !.quorum = 50],
    SwarmConfig(DEFAULT_QUORUM, 10000000, 20000000, 10000000) }

\* The intents proposed to the swarm: params.type, params.lamports or
\* params.amount, params.decimals.
SwarmIntent(type, amount, decimals) == [type |-> type, amount |-> amount, decimals |-> decimals]

SwarmIntents ==
  { SwarmIntent(TRANSFER_SOL, lamports, 0) :
      lamports \in {10000000, 10000001, 15000000, 15000001, 20000000, 20000001,
                    60000000, 60000001, 100000000} }
  \cup { SwarmIntent(TRANSFER_SPL, 15000, 6), SwarmIntent(SWAP, 100000000, 0) }

\* marketSentiment = 0.4 + Math.random() * 0.4, a value of [0.4, 0.8)
Sentiments == {450, 460}
\* No draw: Math.random() is called by evaluateAggressive only.
NoSentiment == 0

RECURSIVE Pow10(_)
Pow10(n) == IF n = 0 THEN 1 ELSE 10 * Pow10(n - 1)

\* getIntentAmountInSol; the decimals of a token are at most 9.
getIntentAmountInSol(intent) ==
  CASE intent.type = TRANSFER_SOL -> intent.amount
    [] intent.type = TRANSFER_SPL ->
         intent.amount * (LAMPORTS_PER_SOL \div Pow10(intent.decimals))
    [] OTHER -> 0

Min(a, b) == IF a <= b THEN a ELSE b

SwarmVote(perspective, approved, confidence, sentiment) ==
  [perspective |-> perspective, approved |-> approved, confidence |-> confidence,
   sentiment |-> sentiment]

\* Mutant of evaluateAggressive: a sentiment of 0.45 is enough.
evaluateAggressive_inclusive(config, amountSol, marketSentiment) ==
  LET riskTolerance == config.aggressiveRiskTolerance
      sizeOk == amountSol <= riskTolerance
      sentimentOk == marketSentiment >= 450
      approved == sizeOk \/ (amountSol <= riskTolerance * 3 /\ sentimentOk)
      confidence == IF sizeOk THEN 6000 + marketSentiment * 3 ELSE marketSentiment * 6
  IN SwarmVote("aggressive", approved, Min(9500, confidence), marketSentiment)

evaluateAggressive(config, amountSol, marketSentiment) ==
  LET riskTolerance == config.aggressiveRiskTolerance
      sizeOk == amountSol <= riskTolerance
      sentimentOk == marketSentiment > 450
      approved == sizeOk \/ (amountSol <= riskTolerance * 3 /\ sentimentOk)
      confidence == IF sizeOk THEN 6000 + marketSentiment * 3 ELSE marketSentiment * 6
  IN SwarmVote("aggressive", approved, Min(9500, confidence), marketSentiment)

\* Mutant of evaluateConservative: an amount equal to the threshold is rejected.
evaluateConservative_strict(config, amountSol) ==
  LET approved == amountSol < config.conservativeThreshold
  IN SwarmVote("conservative", approved, IF approved THEN 7000 ELSE 3000, NoSentiment)

evaluateConservative(config, amountSol) ==
  LET liquidityThreshold == config.conservativeThreshold
      approved == amountSol <= liquidityThreshold
  IN SwarmVote("conservative", approved, IF approved THEN 7000 ELSE 3000, NoSentiment)

\* Mutant of evaluateSystematic: the cutoff is four times the norm.
evaluateSystematic_lenient(config, amountSol) ==
  LET isConsistent == amountSol <= config.systematicNorm * 4
  IN SwarmVote("systematic", isConsistent, IF isConsistent THEN 8000 ELSE 3500, NoSentiment)

evaluateSystematic(config, amountSol) ==
  LET dcaNorm == config.systematicNorm
      isConsistent == amountSol <= dcaNorm * 2
  IN SwarmVote("systematic", isConsistent, IF isConsistent THEN 8000 ELSE 3500, NoSentiment)

evaluateVote(config, perspective, intent, marketSentiment) ==
  LET amountSol == getIntentAmountInSol(intent)
  IN CASE perspective = "aggressive" -> evaluateAggressive(config, amountSol, marketSentiment)
       [] perspective = "conservative" -> evaluateConservative(config, amountSol)
       [] perspective = "systematic" -> evaluateSystematic(config, amountSol)

\* Mutant of QuorumMet: the rate of no vote at all is taken as zero.
QuorumMet_vacuous(approvalCount, n, quorum) ==
  (IF n = 0 THEN 0 ELSE approvalCount * 100) >= quorum * n

\* Mutant of QuorumMet: meeting the quorum exactly is not enough.
QuorumMet_strict(approvalCount, n, quorum) ==
  n # 0 /\ approvalCount * 100 > quorum * n

\* approvalRate >= this.quorum, with approvalRate = approvalCount / votes.length;
\* without votes the rate is NaN and the comparison is false.
QuorumMet(approvalCount, n, quorum) ==
  n # 0 /\ approvalCount * 100 >= quorum * n

NoResult == [intent |-> SwarmIntent("none", 0, 0), votes |-> <<>>, approved |-> FALSE,
             quorum |-> 0, approvalRate |-> <<0, 0>>]
\* A call of propose: idle, voting (suspended at the delay before a vote) or
\* returned; votes is its local array; atStart is the number of onVote callbacks
\* registered when it was called, registered the voters registered when it was
\* called, and returns the parity of the calls returned.
NoProposal == [pc |-> "idle", intent |-> SwarmIntent("none", 0, 0), votes |-> <<>>,
               atStart |-> 0, registered |-> <<>>, returns |-> 0]
\* onVoteCallbacks and onResultCallbacks hold, for each registered callback, the
\* arguments it was called with since the last call of propose.
NoSwarm == [config |-> DefaultSwarmConfig, voters |-> <<>>, result |-> NoResult,
            onVoteCallbacks |-> <<>>, onResultCallbacks |-> <<>>, proposal |-> NoProposal]

\* ------------------------------------------------------- NLPIntentParser
\* Texts are sequences of characters. The characters of the model: five of the
\* Base58 alphabet, with their digits, and "l", which is not in that alphabet.
Chars == {"5", "A", "L", "Q", "a", "l", "q"}

Texts == UNION { [1..n -> Chars] : n \in 1..MaxTextLen }

\* String.prototype.toLowerCase on one character.
LowerChar(c) ==
  CASE c = "A" -> "a"
    [] c = "L" -> "l"
    [] c = "Q" -> "q"
    [] OTHER -> c

toLowerCase(text) == [i \in 1..Len(text) |-> LowerChar(text[i])]

\* The digit of a character in the Base58 alphabet
\* 123456789ABCDEFGHJKLMNPQRSTUVWXYZabcdefghijkmnopqrstuvwxyz.
Base58Digit(c) ==
  CASE c = "5" -> 4
    [] c = "A" -> 9
    [] c = "L" -> 19
    [] c = "Q" -> 23
    [] c = "a" -> 33
    [] c = "q" -> 48

Base58Chars == Chars \ {"l"}

\* bs58.decode: the number a text denotes.
RECURSIVE bs58decode(_)
bs58decode(text) ==
  IF Len(text) = 0 THEN 0
  ELSE bs58decode(SubSeq(text, 1, Len(text) - 1)) * 58 + Base58Digit(text[Len(text)])

\* bs58.encode: the text of a number.
RECURSIVE bs58encode(_)
bs58encode(n) ==
  IF n = 0 THEN <<>>
  ELSE Append(bs58encode(n \div 58), CHOOSE c \in Base58Chars : Base58Digit(c) = n % 58)

\* The number of bytes of a number.
RECURSIVE ByteLength(_)
ByteLength(n) == IF n = 0 THEN 0 ELSE 1 + ByteLength(n \div 256)

\* new PublicKey(text) does not throw: the text is Base58 and decodes to
\* PUBLIC_KEY_LENGTH bytes.
IsPublicKey(text) ==
  /\ \A i \in 1..Len(text) : text[i] \in Base58Chars
  /\ ByteLength(bs58decode(text)) = PUBLIC_KEY_LENGTH

\* new PublicKey(text).toBase58()
toBase58(text) == bs58encode(bs58decode(text))

AgentEntry(agentId, publicKey, name) ==
  [agentId |-> agentId, publicKey |-> publicKey, name |-> name]

NoEntry == AgentEntry(<<>>, <<>>, <<>>)

\* Map.prototype.set
MapSet(map, key, value) ==
  [k \in DOMAIN map \cup {key} |-> IF k = key THEN value ELSE map[k]]

\* resolveTarget: the registry first, then the target as a public key; NoEntry
\* stands for null.
resolveTarget(agents, target) ==
  IF toLowerCase(target) \in DOMAIN agents THEN agents[toLowerCase(target)]
  ELSE IF IsPublicKey(target) THEN AgentEntry(target, toBase58(target), target)
  ELSE NoEntry

\* The inputs of parse: "send 1 SOL to agent <target>", "send 1 tokens to agent
\* <target>" and a text no matcher accepts.
NlpCommands == {"send sol", "send tokens", "weird"}

NlpInput(command, target) == [command |-> command, target |-> target]

NlpInputs == { NlpInput(c, t) : c \in NlpCommands, t \in Texts }

NoInput == NlpInput("none", <<>>)

NLPResult(type, recipient, targetName) ==
  [type |-> type, recipient |-> recipient, targetName |-> targetName]

Unknown == NLPResult("unknown", <<>>, <<>>)

\* parseTransferSol and parseTransferTokens on the lowered input; Unknown
\* stands for null, which no later matcher changes for these inputs.
parseTransfer(agents, currentMint, command, target) ==
  LET resolved == resolveTarget(agents, target)
  IN IF resolved = NoEntry THEN Unknown
     ELSE IF command = "send sol"
       THEN NLPResult("transfer_sol", resolved.publicKey, resolved.name)
     ELSE IF command = "send tokens" /\ currentMint # ""
       THEN NLPResult("transfer_spl", resolved.publicKey, resolved.name)
     ELSE Unknown

\* parse: the whole input is lowered before the matchers see it. The optional
\* LLM fallback is off (OPENAI_API_KEY is not set).
parse(agents, currentMint, input) ==
  parseTransfer(agents, currentMint, input.command, toLowerCase(input.target))

\* agents: the registry, a map from lowered names and ids to entries;
\* result: the last result of parse, input its input, parses the parity of the
\* calls of parse.
NoNlp == [agents |-> <<>>, currentMint |-> "", input |-> NoInput, result |-> Unknown,
          parses |-> 0]

\* ---------------------------------------------------------- AgentRuntime
\* A call of start: idle (not called), balance (awaiting getWalletInfo), cycle
\* (awaiting runCycle), sleep (awaiting sleep) or returned; stopped tells that
\* stop was called while the call was in progress.
NoStart == [pc |-> "idle", maxCycles |-> undefined, stopped |-> FALSE]

\* running, cycle and config.status of an AgentRuntime, and its calls of start.
NoRuntime == [running |-> FALSE, cycle |-> 0, status |-> "IDLE",
              starts |-> [k \in 1..MaxStarts |-> NoStart]]

\* ------------------------------------------------------------ KeyManager
\* The characters of the agent ids of the model, and those the pattern
\* [a-zA-Z0-9_-] accepts.
IdChars == {"A", "/", "_"}

SafeIdChars == {"A", "_"}

\* The agent ids given to the key manager; <<"A">> is the id of agent "A".
WalletIds == { <<"A">>, <<"A", "/">>, <<"A", "_">> }

\* walletFilePath: agentId.replace(/[^a-zA-Z0-9_-]/g, '_'), the name of the file
\* in the wallet directory.
walletFilePath(agentId) ==
  [i \in 1..Len(agentId) |-> IF agentId[i] \in SafeIdChars THEN agentId[i] ELSE "_"]

\* Map.prototype.delete
MapDelete(map, key) == [k \in DOMAIN map \ {key} |-> map[k]]

\* walletExists: fs.existsSync(walletFilePath(agentId))
walletExists(files, agentId) == walletFilePath(agentId) \in DOMAIN files

\* getPublicKey of an agent whose wallet exists.
getPublicKey(files, agentId) == files[walletFilePath(agentId)].publicKey

\* Mutant of releaseKey: the key stays in the cache.
releaseKey_keeps(keyCache, agentId) == keyCache

\* releaseKey: keyCache.delete(agentId)
releaseKey(keyCache, agentId) == MapDelete(keyCache, agentId)

\* An operation of the WalletService that uses the key: idle, or simulate or
\* execute at one of its awaits: build (loadKey has returned), network
\* (simulateTransaction or sendAndConfirmTransaction), audit (getTransaction).
NoWalletOp == [pc |-> "idle", kind |-> "none", agentId |-> <<>>]

\* The value an operation of the WalletService returned last: the success of
\* its SimulationResult or ExecutionResult; confirmed: sendAndConfirmTransaction
\* had resolved with a signature in that operation.
WalletResult(kind, success, confirmed) ==
  [kind |-> kind, success |-> success, confirmed |-> confirmed]

NoWalletResult == WalletResult("none", FALSE, FALSE)

\* files: the wallet files, by name; keyCache: the cached keypairs, by agent
\* id; generated: the keypairs generated; ops: the operations in progress;
\* returned: the result of the operation that returned last.
NoKeyManager == [files |-> <<>>, keyCache |-> <<>>, generated |-> 0,
                 ops |-> [o \in 1..MaxWalletOps |-> NoWalletOp],
                 returned |-> NoWalletResult]

VARIABLES
  now,          \* Date.now()
  killed,       \* PolicyEngine.killed
  killReason,   \* PolicyEngine.killReason
  txHistory,    \* PolicyEngine.txHistory: agent -> sequence of {timestamp, lamports}
  lastTxTime,   \* PolicyEngine.lastTxTime: agent -> time, or undefined
  calls,        \* evaluate calls suspended at the await of the simulation
  config,       \* AgentConfig.policy of each agent, where the policy is fixed
  ret,          \* history: what the last step returned to or called on its environment
  approved,     \* history: the intents for which an evaluate returned allowed = true
  lastKill,     \* history: the reason passed to the last kill() since the last resume()
  ops,          \* history: every approved operation of each agent, never purged
  solo,         \* history: the state of each agent in an engine that gets only its calls
  subm,         \* history: the operations submitted for each agent in a window scenario
  transactionLog,  \* AgentRuntime.transactionLog of the runtime of each agent
  swarm,        \* SwarmConsensus: its configuration, its voters and the last result
  nlp,          \* NLPIntentParser: its registry, its current mint and the last result
  runtime,      \* AgentRuntime: its flags, its cycle counter and the position of start
  keyManager    \* KeyManager: the wallet files, the key cache and the operations

vars == <<now, killed, killReason, txHistory, lastTxTime, calls, config, ret,
          approved, lastKill, ops, solo, subm, transactionLog, swarm,
          nlp, runtime, keyManager>>

\* ---------------------------------------------------------- PolicyEngine
Violation(check, text, a, b) == [check |-> check, text |-> text, a |-> a, b |-> b]

RECURSIVE SumLamports(_)
SumLamports(h) == IF h = <<>> THEN 0 ELSE Head(h).lamports + SumLamports(Tail(h))

\* Mutant of getRecentTxCount: the filter on the last hour is missing.
getRecentTxCount_unfiltered(history, t) == Len(history)

getRecentTxCount(history, t) ==
  LET hourAgo == t - HOUR_MS
  IN Len(SelectSeq(history, LAMBDA h : h.timestamp > hourAgo))

\* Mutant of getHourlySpend: counts the operations instead of adding their amounts.
getHourlySpend_count(history, t) ==
  LET hourAgo == t - HOUR_MS
  IN Len(SelectSeq(history, LAMBDA h : h.timestamp > hourAgo))

getHourlySpend(history, t) ==
  LET hourAgo == t - HOUR_MS
  IN SumLamports(SelectSeq(history, LAMBDA h : h.timestamp > hourAgo))

\* Mutant of getIntentAmount: a token transfer counts with its quantity.
getIntentAmount_quantity(intent) ==
  CASE intent.type \in {TRANSFER_SOL, TRANSFER_SPL, SWAP} -> intent.amount
    [] OTHER -> 0

getIntentAmount(intent) ==
  CASE intent.type = TRANSFER_SOL -> intent.amount
    [] intent.type = TRANSFER_SPL -> 0
    [] intent.type = SWAP -> intent.amount
    [] OTHER -> 0

\* Mutant of StateKey: one policy state shared by all the agents.
StateKey_shared(intent) == "A"

\* The key of the policy state an intent is checked against and recorded in.
StateKey(intent) == intent.agentId

checkConfidence(intent, policy, violations) ==
  LET minConfidence == IF policy.minConfidence = undefined THEN 0
                       ELSE policy.minConfidence
  IN IF intent.confidence < minConfidence
       THEN Append(violations,
                   Violation("confidence", "", intent.confidence, minConfidence))
       ELSE violations

checkTypePermissions(intent, policy, violations) ==
  LET v1 == IF intent.type = TRANSFER_SOL /\ ~policy.allowSolTransfers
              THEN Append(violations, Violation("sol_not_allowed", "", 0, 0))
              ELSE violations
  IN IF intent.type = TRANSFER_SPL /\ ~policy.allowSplTransfers
       THEN Append(v1, Violation("spl_not_allowed", "", 0, 0))
       ELSE v1

\* Mutant of checkSpendingLimits: reaching the hourly limit is a violation.
checkSpendingLimits_inclusive(intent, policy, history, t, violations) ==
  LET txAmount == getIntentAmount(intent)
      v1 == IF txAmount > policy.maxTransactionLamports
              THEN Append(violations,
                          Violation("per_tx", "", txAmount, policy.maxTransactionLamports))
              ELSE violations
      hourlySpend == getHourlySpend(history, t)
  IN IF hourlySpend + txAmount >= policy.maxHourlySpendLamports
       THEN Append(v1, Violation("hourly", "", hourlySpend + txAmount,
                                 policy.maxHourlySpendLamports))
       ELSE v1

checkSpendingLimits(intent, policy, history, t, violations) ==
  LET txAmount == getIntentAmount(intent)
      v1 == IF txAmount > policy.maxTransactionLamports
              THEN Append(violations,
                          Violation("per_tx", "", txAmount, policy.maxTransactionLamports))
              ELSE violations
      hourlySpend == getHourlySpend(history, t)
  IN IF hourlySpend + txAmount > policy.maxHourlySpendLamports
       THEN Append(v1, Violation("hourly", "", hourlySpend + txAmount,
                                 policy.maxHourlySpendLamports))
       ELSE v1

\* Mutant of checkRateLimits: an elapsed time equal to the cooldown is a violation.
checkRateLimits_inclusive(intent, policy, history, lastTx, t, violations) ==
  LET elapsed == t - lastTx
      v1 == IF lastTx # undefined /\ lastTx # 0 /\ elapsed <= policy.txCooldownMs
              THEN Append(violations,
                          Violation("cooldown", "", elapsed, policy.txCooldownMs))
              ELSE violations
      txCount == getRecentTxCount(history, t)
  IN IF txCount >= policy.maxTxPerHour
       THEN Append(v1, Violation("rate", "", txCount, policy.maxTxPerHour))
       ELSE v1

checkRateLimits(intent, policy, history, lastTx, t, violations) ==
  LET elapsed == t - lastTx
      v1 == IF lastTx # undefined /\ lastTx # 0 /\ elapsed < policy.txCooldownMs
              THEN Append(violations,
                          Violation("cooldown", "", elapsed, policy.txCooldownMs))
              ELSE violations
      txCount == getRecentTxCount(history, t)
  IN IF txCount >= policy.maxTxPerHour
       THEN Append(v1, Violation("rate", "", txCount, policy.maxTxPerHour))
       ELSE v1

\* Mutant of checkProgramAllowlist: the program of every intent is looked up.
checkProgramAllowlist_allTypes(intent, policy, violations) ==
  IF intent.programId \notin policy.allowlistedPrograms
    THEN Append(violations, Violation("allowlist", intent.programId, 0, 0))
    ELSE violations

checkProgramAllowlist(intent, policy, violations) ==
  IF intent.type \in {TRANSFER_SOL, TRANSFER_SPL, SWAP}
    THEN violations
    ELSE IF intent.type = CUSTOM /\ intent.programId \notin policy.allowlistedPrograms
           THEN Append(violations, Violation("allowlist", intent.programId, 0, 0))
           ELSE violations

\* Mutant of SyncChecks: the checks stop at the first violation.
SyncChecks_firstOnly(intent, policy, history, lastTx, t) ==
  LET v1 == checkConfidence(intent, policy, <<>>)
      v2 == checkTypePermissions(intent, policy, v1)
      v3 == checkSpendingLimits(intent, policy, history, t, v2)
      v4 == checkRateLimits(intent, policy, history, lastTx, t, v3)
      v5 == checkProgramAllowlist(intent, policy, v4)
  IN IF Len(v5) > 1 THEN <<v5[1]>> ELSE v5

\* The checks of evaluate that run before the await, in the order of the code.
SyncChecks(intent, policy, history, lastTx, t) ==
  LET v1 == checkConfidence(intent, policy, <<>>)
      v2 == checkTypePermissions(intent, policy, v1)
      v3 == checkSpendingLimits(intent, policy, history, t, v2)
      v4 == checkRateLimits(intent, policy, history, lastTx, t, v3)
  IN checkProgramAllowlist(intent, policy, v4)

\* Mutant of NeedsSimulation: the earlier violations are not looked at.
NeedsSimulation_always(violations, policy) == policy.requireSimulation

\* if (violations.length === 0 && policy.requireSimulation)
NeedsSimulation(violations, policy) == Len(violations) = 0 /\ policy.requireSimulation

\* Mutant of SimulationCheck: a failed simulation is not a violation.
SimulationCheck_ignored(simulationResult, violations) == violations

\* The violations after the await of the simulation (violations is empty there).
SimulationCheck(simulationResult, violations) ==
  IF ~simulationResult.success
    THEN Append(violations, Violation("simulation", simulationResult.error, 0, 0))
    ELSE violations

\* const allowed = violations.length === 0
Allowed(violations) == Len(violations) = 0

\* Mutant of HaltViolations: the kill-switch path returns no violation.
HaltViolations_none(reason) == <<>>

\* The evaluation returned on the kill-switch path.
HaltViolations(reason) == <<Violation("kill", reason, 0, 0)>>

\* Mutant of recordTransaction: the purge drops what is half an hour old.
recordTransaction_hasty(intent, history, t) ==
  LET pushed == Append(history, [timestamp |-> t, lamports |-> getIntentAmount(intent)])
      halfHourAgo == t - HALF_HOUR_MS
  IN SelectSeq(pushed, LAMBDA h : h.timestamp > halfHourAgo)

\* Mutant of recordTransaction: an entry that is exactly two hours old is kept.
recordTransaction_keeps(intent, history, t) ==
  LET pushed == Append(history, [timestamp |-> t, lamports |-> getIntentAmount(intent)])
      twoHoursAgo == t - TWO_HOURS_MS
  IN SelectSeq(pushed, LAMBDA h : h.timestamp >= twoHoursAgo)

\* recordTransaction: the new history of the agent of the intent.
recordTransaction(intent, history, t) ==
  LET pushed == Append(history, [timestamp |-> t, lamports |-> getIntentAmount(intent)])
      twoHoursAgo == t - TWO_HOURS_MS
  IN SelectSeq(pushed, LAMBDA h : h.timestamp > twoHoursAgo)

\* Mutant of Recorded: evaluate leaves the record to the execution.
Recorded_never(allowed, intent, history, t) == history

\* Mutant of Recorded: the intent is recorded whatever the verdict.
Recorded_always(allowed, intent, history, t) == recordTransaction(intent, history, t)

\* if (allowed) this.recordTransaction(intent)
Recorded(allowed, intent, history, t) ==
  IF allowed THEN recordTransaction(intent, history, t) ELSE history

RecordedTime(allowed, lastTx, t) == IF allowed THEN t ELSE lastTx

\* ------------------------------------------------------- returned values
\* let simulationResult: SimulationResult | undefined
NoSimulation == [success |-> FALSE, error |-> "undefined"]

NoIntent == TransactionIntent("none", "none", 0, "", 0)
IdleCall == [pc |-> "idle", intent |-> NoIntent, policy |-> BasePolicy,
             soloViolations |-> <<>>]

\* kind: "evaluation" (evaluate returned), "simulate" (evaluate called
\* simulateTransaction and is suspended), "execute" (executeTransaction was
\* called without an evaluate), "resume" (resume() returned), "none". simulated: the evaluate called
\* simulateTransaction. executedFor: the agent executeTransaction was called for.
\* soloViolations: the violations of the same call in the engine of solo.
\* simulationResult: PolicyEvaluation.simulationResult, NoSimulation when undefined.
Ret(kind, intent, policy, allowed, reason, violations, simulated, simulationResult, executedFor, soloViolations) ==
  [kind |-> kind, intent |-> intent, policy |-> policy, allowed |-> allowed,
   reason |-> reason, violations |-> violations, simulated |-> simulated,
   simulationResult |-> simulationResult,
   executedFor |-> executedFor, soloViolations |-> soloViolations]
NoRet == Ret("none", NoIntent, BasePolicy, FALSE, <<"", "">>, <<>>, FALSE, NoSimulation,
             "none", <<>>)

\* n operations submitted, the first at time first, of amounts summing to total;
\* the approved ones before the last one sum to prior; the last one, of amount
\* amount, was approved iff last.
NoSubm == [n |-> 0, first |-> undefined, total |-> 0, prior |-> 0, amount |-> 0,
           last |-> FALSE]

Init ==
  /\ now = StartTime
  /\ killed = FALSE
  /\ killReason = ""
  /\ txHistory = [a \in Agents |-> <<>>]
  /\ lastTxTime = [a \in Agents |-> undefined]
  /\ calls = [c \in Calls |-> IdleCall]
  /\ config = [a \in Agents |-> BasePolicy]
  /\ ret = NoRet
  /\ approved = {}
  /\ lastKill = ""
  /\ ops = [a \in Agents |-> <<>>]
  /\ solo = [a \in Agents |-> [history |-> <<>>, lastTx |-> undefined]]
  /\ subm = [a \in Agents |-> NoSubm]
  /\ transactionLog = [a \in Agents |-> <<>>]
  /\ swarm = NoSwarm
  /\ nlp = NoNlp
  /\ runtime = NoRuntime
  /\ keyManager = NoKeyManager

\* The end of evaluate: the verdict, the record of an approved intent, and the
\* continuation of the caller: AgentRuntime.runCycle calls
\* executeTransaction(config.id, intent) when the verdict is allowed.
\* soloRuns: the call of the engine of solo ends in this step too.
Complete(caller, intent, policy, violations, simulated, simulationResult, soloViolations, soloRuns) ==
  LET allowed == Allowed(violations)
      key == StateKey(intent)
      a == intent.agentId
      soloAllowed == soloRuns /\ Allowed(soloViolations)
  IN /\ ret' = Ret("evaluation", intent, policy, allowed,
                   IF allowed THEN <<"All policy checks passed", "">>
                   ELSE <<"Policy violations", "">>,
                   violations, simulated, simulationResult,
                   IF allowed /\ caller \in Agents THEN caller ELSE "none",
                   soloViolations)
     /\ txHistory' = [txHistory EXCEPT ![key] = Recorded(allowed, intent, @, now)]
     /\ lastTxTime' = [lastTxTime EXCEPT ![key] = RecordedTime(allowed, @, now)]
     /\ approved' = IF allowed THEN approved \cup {intent} ELSE approved
     /\ ops' = IF allowed
                 THEN [ops EXCEPT ![a] = Append(@, [timestamp |-> now,
                                                    lamports |-> getIntentAmount(intent)])]
                 ELSE ops
     /\ solo' = [solo EXCEPT ![a] =
                   [history |-> Recorded(soloAllowed, intent, @.history, now),
                    lastTx |-> RecordedTime(soloAllowed, @.lastTx, now)]]

\* evaluate, from the call to its return or to the await of the simulation.
\* caller is "direct" or the agent whose AgentRuntime.runCycle makes the call.
evaluate(c, caller, intent, policy) ==
  /\ calls[c].pc = "idle"
  /\ \A d \in Calls : d < c => calls[d].pc # "idle"
  /\ UNCHANGED <<now, killed, killReason, lastKill, config>>
  /\ IF killed
       THEN /\ ret' = Ret("evaluation", intent, policy, FALSE,
                          <<"EMERGENCY HALT", killReason>>,
                          HaltViolations(killReason), FALSE, NoSimulation, "none",
                          HaltViolations(killReason))
            /\ UNCHANGED <<txHistory, lastTxTime, calls, approved, ops, solo>>
       ELSE LET key == StateKey(intent)
                violations == SyncChecks(intent, policy, txHistory[key],
                                         lastTxTime[key], now)
                soloViolations == SyncChecks(intent, policy, solo[intent.agentId].history,
                                             solo[intent.agentId].lastTx, now)
            IN IF NeedsSimulation(violations, policy)
                 THEN /\ calls' = [calls EXCEPT ![c] =
                                     [pc |-> "awaitSim", intent |-> intent,
                                      policy |-> policy,
                                      soloViolations |-> soloViolations]]
                      /\ ret' = Ret("simulate", intent, policy, FALSE, <<"", "">>,
                                    violations, TRUE, NoSimulation, "none",
                                    soloViolations)
                      /\ UNCHANGED <<txHistory, lastTxTime, approved, ops, solo>>
                 ELSE /\ Complete(caller, intent, policy, violations, FALSE,
                                  NoSimulation, soloViolations,
                                  ~NeedsSimulation(soloViolations, policy))
                      /\ UNCHANGED calls

\* simulateTransaction resolves and evaluate resumes after its await. evaluate
\* does not depend on its caller, so a suspended call does not record it: the
\* step that resumes the call names the caller whose continuation runs.
SimulationReturns(c, caller, simulationResult) ==
  /\ calls[c].pc = "awaitSim"
  /\ UNCHANGED <<now, killed, killReason, lastKill, config>>
  /\ Complete(caller, calls[c].intent, calls[c].policy,
              SimulationCheck(simulationResult, <<>>), TRUE, simulationResult,
              IF Len(calls[c].soloViolations) = 0
                THEN SimulationCheck(simulationResult, <<>>)
                ELSE calls[c].soloViolations,
              Len(calls[c].soloViolations) = 0)
  /\ calls' = [calls EXCEPT ![c] = IdleCall]

\* Mutant of kill: a kill() while the switch is active keeps the first reason.
kill_keepsReason(reason) ==
  /\ killed' = TRUE
  /\ killReason' = IF killed THEN killReason ELSE reason
  /\ lastKill' = reason
  /\ ret' = NoRet
  /\ UNCHANGED <<now, txHistory, lastTxTime, calls, config, approved, ops, solo, subm, transactionLog, swarm, nlp, runtime, keyManager>>

kill(reason) ==
  /\ killed' = TRUE
  /\ killReason' = reason
  /\ lastKill' = reason
  /\ ret' = NoRet
  /\ UNCHANGED <<now, txHistory, lastTxTime, calls, config, approved, ops, solo, subm, transactionLog, swarm, nlp, runtime, keyManager>>

\* Mutant of resume: the policy state of the agents is reset with the switch.
resume_resets ==
  /\ killed' = FALSE
  /\ killReason' = ""
  /\ lastKill' = ""
  /\ ret' = Ret("resume", NoIntent, BasePolicy, FALSE, <<"", "">>, <<>>, FALSE, NoSimulation,
              "none", <<>>)
  /\ txHistory' = [a \in Agents |-> <<>>]
  /\ lastTxTime' = [a \in Agents |-> undefined]
  /\ UNCHANGED <<now, calls, config, approved, ops, solo, subm, transactionLog, swarm, nlp, runtime, keyManager>>

resume ==
  /\ killed' = FALSE
  /\ killReason' = ""
  /\ lastKill' = ""
  /\ ret' = Ret("resume", NoIntent, BasePolicy, FALSE, <<"", "">>, <<>>, FALSE, NoSimulation,
              "none", <<>>)
  /\ UNCHANGED <<now, txHistory, lastTxTime, calls, config, approved, ops, solo, subm, transactionLog, swarm, nlp, runtime, keyManager>>

\* WalletService.agentToAgentTransfer builds a TRANSFER_SOL intent and calls
\* executeTransaction with it.
agentToAgentTransfer(fromAgentId, toAgentId, lamports) ==
  /\ ret' = Ret("execute",
                TransactionIntent(fromAgentId, TRANSFER_SOL, lamports, "", A2A_CONFIDENCE),
                BasePolicy, FALSE, <<"", "">>, <<>>, FALSE, NoSimulation, fromAgentId,
                <<>>)
  /\ UNCHANGED <<now, killed, killReason, txHistory, lastTxTime, calls, config,
                 approved, lastKill, ops, solo, subm, transactionLog, swarm, nlp, runtime, keyManager>>

\* The clock advances by step, up to limit.
Tick(step, limit) ==
  /\ now + step <= StartTime + limit
  /\ now' = now + step
  /\ ret' = NoRet
  /\ UNCHANGED <<killed, killReason, txHistory, lastTxTime, calls, config, approved,
                 lastKill, ops, solo, subm, transactionLog, swarm, nlp, runtime, keyManager>>

\* ------------------------------------------------- concurrent specification
\* Any caller evaluates any intent against any policy; calls overlap.
Evaluate(c, caller, intent, policy) ==
  /\ evaluate(c, caller, intent, policy)
  /\ UNCHANGED <<subm, transactionLog, swarm, nlp, runtime, keyManager>>

Resume(c, caller, simulationResult) ==
  /\ SimulationReturns(c, caller, simulationResult)
  /\ UNCHANGED <<subm, transactionLog, swarm, nlp, runtime, keyManager>>

Next ==
  \/ \E c \in Calls, caller \in Callers, intent \in Intents, policy \in Policies :
        Evaluate(c, caller, intent, policy)
  \/ \E c \in Calls, caller \in Callers, r \in SimulationResults : Resume(c, caller, r)
  \/ \E reason \in Reasons : kill(reason)
  \/ resume
  \/ \E from \in Agents, to \in Agents, lamports \in Lamports :
        agentToAgentTransfer(from, to, lamports)
  \/ Tick(HALF_HOUR_MS, MaxTicks * HALF_HOUR_MS)

Spec == Init /\ [][Next]_vars

\* ----------------------------------------------------- serial specification
\* The policy of each agent is fixed and the evaluations of one agent run one
\* after another: evaluate is not called for an agent that has a suspended call.
SerialConfigs ==
  { f \in [Agents -> SerialPolicies] : f["B"] = BasePolicy }

InitSerial ==
  /\ now = StartTime
  /\ killed = FALSE
  /\ killReason = ""
  /\ txHistory = [a \in Agents |-> <<>>]
  /\ lastTxTime = [a \in Agents |-> undefined]
  /\ calls = [c \in Calls |-> IdleCall]
  /\ config \in SerialConfigs
  /\ ret = NoRet
  /\ approved = {}
  /\ lastKill = ""
  /\ ops = [a \in Agents |-> <<>>]
  /\ solo = [a \in Agents |-> [history |-> <<>>, lastTx |-> undefined]]
  /\ subm = [a \in Agents |-> NoSubm]
  /\ transactionLog = [a \in Agents |-> <<>>]
  /\ swarm = NoSwarm
  /\ nlp = NoNlp
  /\ runtime = NoRuntime
  /\ keyManager = NoKeyManager

Suspended(a) == \E c \in Calls : calls[c].pc = "awaitSim" /\ calls[c].intent.agentId = a

SerialEvaluate(c, intent) ==
  /\ ~Suspended(intent.agentId)
  /\ evaluate(c, "direct", intent, config[intent.agentId])
  /\ UNCHANGED <<subm, transactionLog, swarm, nlp, runtime, keyManager>>

SerialResume(c, simulationResult) ==
  /\ SimulationReturns(c, "direct", simulationResult)
  /\ UNCHANGED <<subm, transactionLog, swarm, nlp, runtime, keyManager>>

NextSerial ==
  \/ \E c \in Calls, intent \in SerialIntents : SerialEvaluate(c, intent)
  \/ \E c \in Calls, r \in SimulationResults : SerialResume(c, r)
  \/ \E reason \in Reasons : kill(reason)
  \/ resume
  \/ Tick(HALF_HOUR_MS, SerialTicks * HALF_HOUR_MS)

SerialSpec == InitSerial /\ [][NextSerial]_vars

\* ----------------------------------------------------- window specification
\* The scenario of the window property: a policy whose only binding check is
\* the hourly cap, and operations submitted for an agent one after another.
WindowConfigs ==
  { f \in [Agents -> WindowPolicies \cup {BasePolicy}] :
      f["A"] \in WindowPolicies /\ f["B"] = BasePolicy }

InitWindow ==
  /\ now = StartTime
  /\ killed = FALSE
  /\ killReason = ""
  /\ txHistory = [a \in Agents |-> <<>>]
  /\ lastTxTime = [a \in Agents |-> undefined]
  /\ calls = [c \in Calls |-> IdleCall]
  /\ config \in WindowConfigs
  /\ ret = NoRet
  /\ approved = {}
  /\ lastKill = ""
  /\ ops = [a \in Agents |-> <<>>]
  /\ solo = [a \in Agents |-> [history |-> <<>>, lastTx |-> undefined]]
  /\ subm = [a \in Agents |-> NoSubm]
  /\ transactionLog = [a \in Agents |-> <<>>]
  /\ swarm = NoSwarm
  /\ nlp = NoNlp
  /\ runtime = NoRuntime
  /\ keyManager = NoKeyManager

\* The k-th operation of the scenario of its agent is submitted.
Submit(c, intent) ==
  LET a == intent.agentId
      amount == getIntentAmount(intent)
  IN /\ subm[a].n < MaxOps
     /\ evaluate(c, "direct", intent, config[a])
     /\ subm' = [subm EXCEPT ![a] =
                   [n |-> @.n + 1,
                    first |-> IF @.first = undefined THEN now ELSE @.first,
                    total |-> @.total + amount,
                    prior |-> @.prior + (IF @.last THEN @.amount ELSE 0),
                    amount |-> amount,
                    last |-> ret'.allowed]]
     /\ UNCHANGED <<transactionLog, swarm, nlp, runtime, keyManager>>

NextWindow ==
  \/ \E c \in Calls, intent \in SerialIntents : Submit(c, intent)
  \/ Tick(HALF_HOUR_MS, SerialTicks * HALF_HOUR_MS)

WindowSpec == InitWindow /\ [][NextWindow]_vars

\* ------------------------------------------------- specification of the checks
\* One agent under a fixed policy proposes intents of every type, one after
\* another; the kill switch is not used.
CheckConfigs ==
  { f \in [Agents -> CheckPolicies \cup {BasePolicy}] :
      f["A"] \in CheckPolicies /\ f["B"] = BasePolicy }

InitChecks ==
  /\ now = StartTime
  /\ killed = FALSE
  /\ killReason = ""
  /\ txHistory = [a \in Agents |-> <<>>]
  /\ lastTxTime = [a \in Agents |-> undefined]
  /\ calls = [c \in Calls |-> IdleCall]
  /\ config \in CheckConfigs
  /\ ret = NoRet
  /\ approved = {}
  /\ lastKill = ""
  /\ ops = [a \in Agents |-> <<>>]
  /\ solo = [a \in Agents |-> [history |-> <<>>, lastTx |-> undefined]]
  /\ subm = [a \in Agents |-> NoSubm]
  /\ transactionLog = [a \in Agents |-> <<>>]
  /\ swarm = NoSwarm
  /\ nlp = NoNlp
  /\ runtime = NoRuntime
  /\ keyManager = NoKeyManager

\* simulateTransaction resolves with the result of one of its outcomes.
ChecksResume(c, outcome) ==
  SerialResume(c, simulateTransaction(calls[c].intent, outcome))

NextChecks ==
  \/ \E c \in Calls, intent \in CheckIntents : SerialEvaluate(c, intent)
  \/ \E c \in Calls, outcome \in SimulationOutcomes : ChecksResume(c, outcome)
  \/ Tick(HALF_HOUR_MS, ChecksTicks * HALF_HOUR_MS)

ChecksSpec == InitChecks /\ [][NextChecks]_vars

\* --------------------------------------------- specification of the categories
\* Intents of every type evaluated under policies that require the simulation
\* or do not.
InitTypes ==
  /\ now = StartTime
  /\ killed = FALSE
  /\ killReason = ""
  /\ txHistory = [a \in Agents |-> <<>>]
  /\ lastTxTime = [a \in Agents |-> undefined]
  /\ calls = [c \in Calls |-> IdleCall]
  /\ config \in { [a \in Agents |-> p] : p \in Policies }
  /\ ret = NoRet
  /\ approved = {}
  /\ lastKill = ""
  /\ ops = [a \in Agents |-> <<>>]
  /\ solo = [a \in Agents |-> [history |-> <<>>, lastTx |-> undefined]]
  /\ subm = [a \in Agents |-> NoSubm]
  /\ transactionLog = [a \in Agents |-> <<>>]
  /\ swarm = NoSwarm
  /\ nlp = NoNlp
  /\ runtime = NoRuntime
  /\ keyManager = NoKeyManager

NextTypes ==
  \/ \E c \in Calls, intent \in CheckIntents : SerialEvaluate(c, intent)
  \/ \E c \in Calls, outcome \in SimulationOutcomes : ChecksResume(c, outcome)
  \/ Tick(HALF_HOUR_MS, ChecksTicks * HALF_HOUR_MS)

TypesSpec == InitTypes /\ [][NextTypes]_vars

\* ------------------------------------------------- specification of the cycles
\* The runtime of each agent runs its cycles one after another; the cycles of
\* different agents interleave, and so do kill() and resume(). The clock does
\* not advance: the cycles are as close to each other as they can be.
\* ExecutionResult.success of executeTransaction.
ExecutionOutcomes == {"confirmed", "failed"}

InitCycle ==
  /\ now = StartTime
  /\ killed = FALSE
  /\ killReason = ""
  /\ txHistory = [a \in Agents |-> <<>>]
  /\ lastTxTime = [a \in Agents |-> undefined]
  /\ calls = [c \in Calls |-> IdleCall]
  /\ config \in { f \in [Agents -> Policies] : f["B"] = BasePolicy }
  /\ ret = NoRet
  /\ approved = {}
  /\ lastKill = ""
  /\ ops = [a \in Agents |-> <<>>]
  /\ solo = [a \in Agents |-> [history |-> <<>>, lastTx |-> undefined]]
  /\ subm = [a \in Agents |-> NoSubm]
  /\ transactionLog = [a \in Agents |-> <<>>]
  /\ swarm = NoSwarm
  /\ nlp = NoNlp
  /\ runtime = NoRuntime
  /\ keyManager = NoKeyManager

\* Mutant of ExecutionResultOf: executeTransaction is called whatever the verdict.
ExecutionResultOf_always(allowed, outcome) == outcome

\* let executionResult; if (evaluation.allowed) executionResult = await executeTransaction(...)
ExecutionResultOf(allowed, outcome) == IF allowed THEN outcome ELSE "undefined"

\* The end of runCycle: the log of the intent, of its evaluation and of the
\* result of its execution.
LogCycle(a, outcome) ==
  transactionLog' =
    [transactionLog EXCEPT ![a] =
       Append(@, [intent |-> ret'.intent, allowed |-> ret'.allowed,
                  violations |-> ret'.violations,
                  executionResult |-> ExecutionResultOf(ret'.allowed, outcome)])]

\* runCycle with a decision of the strategy, up to the await of the simulation
\* or to its end.
runCycle(c, a, intent, outcome) ==
  /\ intent.agentId = a
  /\ ~Suspended(a)
  /\ Len(transactionLog[a]) < MaxCycles
  /\ evaluate(c, a, intent, config[a])
  /\ IF ret'.kind = "evaluation" THEN LogCycle(a, outcome) ELSE UNCHANGED transactionLog
  /\ UNCHANGED <<subm, swarm, nlp, runtime, keyManager>>

\* runCycle from the end of the simulation to its end.
CycleResume(c, simulationResult, outcome) ==
  /\ SimulationReturns(c, calls[c].intent.agentId, simulationResult)
  /\ LogCycle(calls[c].intent.agentId, outcome)
  /\ UNCHANGED <<subm, swarm, nlp, runtime, keyManager>>

\* runCycle when the strategy decides no action.
NoDecision(a) ==
  /\ ~Suspended(a)
  /\ ret' = NoRet
  /\ UNCHANGED <<now, killed, killReason, txHistory, lastTxTime, calls, config,
                 approved, lastKill, ops, solo, subm, transactionLog, swarm, nlp, runtime, keyManager>>

NextCycle ==
  \/ \E c \in Calls, a \in Agents, intent \in Intents, outcome \in ExecutionOutcomes :
        runCycle(c, a, intent, outcome)
  \/ \E c \in Calls, r \in SimulationResults, outcome \in ExecutionOutcomes :
        CycleResume(c, r, outcome)
  \/ \E a \in Agents : NoDecision(a)
  \/ \E reason \in Reasons : kill(reason)
  \/ resume

CycleSpec == InitCycle /\ [][NextCycle]_vars

\* ---------------------------------------------- specification of the strategies
\* runCycle with any decision: the code takes the intent of the strategy as it
\* is, whatever its agentId. It is evaluated against the policy of the runtime
\* and executed with the wallet of the runtime. No policy requires the
\* simulation here, so a cycle is one step.
runCycleOf(c, a, intent, outcome) ==
  /\ Len(transactionLog[a]) < MaxCycles
  /\ evaluate(c, a, intent, config[a])
  /\ LogCycle(a, outcome)
  /\ UNCHANGED <<subm, swarm, nlp, runtime, keyManager>>

NextStrategy ==
  \/ \E c \in Calls, a \in Agents, intent \in Intents, outcome \in ExecutionOutcomes :
        runCycleOf(c, a, intent, outcome)
  \/ \E a \in Agents : NoDecision(a)
  \/ Tick(HALF_HOUR_MS, MaxTicks * HALF_HOUR_MS)

StrategySpec == Init /\ [][NextStrategy]_vars

\* -------------------------------------------------- specification of the swarm
\* A SwarmConsensus is constructed with a configuration; voters are registered
\* and intents are proposed. The policy engine is not involved.
InitSwarm ==
  /\ now = StartTime
  /\ killed = FALSE
  /\ killReason = ""
  /\ txHistory = [a \in Agents |-> <<>>]
  /\ lastTxTime = [a \in Agents |-> undefined]
  /\ calls = [c \in Calls |-> IdleCall]
  /\ config = [a \in Agents |-> BasePolicy]
  /\ ret = NoRet
  /\ approved = {}
  /\ lastKill = ""
  /\ ops = [a \in Agents |-> <<>>]
  /\ solo = [a \in Agents |-> [history |-> <<>>, lastTx |-> undefined]]
  /\ subm = [a \in Agents |-> NoSubm]
  /\ transactionLog = [a \in Agents |-> <<>>]
  /\ \E c \in SwarmConfigs : swarm = [NoSwarm EXCEPT !.config = c]
  /\ nlp = NoNlp
  /\ runtime = NoRuntime
  /\ keyManager = NoKeyManager

registerVoter(perspective) ==
  /\ Len(swarm.voters) < MaxVoters
  /\ swarm' = [swarm EXCEPT !.voters = Append(@, perspective)]
  /\ UNCHANGED <<now, killed, killReason, txHistory, lastTxTime, calls, config, ret,
                 approved, lastKill, ops, solo, subm, transactionLog,
                 nlp, runtime, keyManager>>

\* The draws of a proposal: one sentiment for each aggressive voter.
Draws(voters) ==
  { d \in [1..Len(voters) -> Sentiments \cup {NoSentiment}] :
      \A i \in 1..Len(voters) : (d[i] = NoSentiment) <=> (voters[i] # "aggressive") }

\* propose: every voter votes, in the order of registration, and the votes are
\* counted against the quorum.
propose(intent, draws) ==
  LET n == Len(swarm.voters)
      votes == [i \in 1..n |-> evaluateVote(swarm.config, swarm.voters[i], intent, draws[i])]
      approvalCount == Cardinality({ i \in 1..n : votes[i].approved })
  IN /\ swarm' = [swarm EXCEPT !.result =
                     [intent |-> intent, votes |-> votes,
                      approved |-> QuorumMet(approvalCount, n, swarm.config.quorum),
                      quorum |-> swarm.config.quorum,
                      approvalRate |-> <<approvalCount, n>>]]
     /\ UNCHANGED <<now, killed, killReason, txHistory, lastTxTime, calls, config, ret,
                    approved, lastKill, ops, solo, subm, transactionLog,
                 nlp, runtime, keyManager>>

NextSwarm ==
  \/ \E perspective \in Perspectives : registerVoter(perspective)
  \/ \E intent \in SwarmIntents, draws \in Draws(swarm.voters) : propose(intent, draws)

SwarmSpec == InitSwarm /\ [][NextSwarm]_vars

\* ------------------------------------------------ specification of the overlap
\* The evaluations of an agent under a fixed policy that requires the
\* simulation: a call can begin while another awaits its simulation.
OverlapCalls == 1..(MaxCalls + 1)

RateSimPolicy == [SimPolicy EXCEPT !.maxTxPerHour = 1]

OverlapConfigs ==
  { f \in [Agents -> {BasePolicy, SimPolicy, RateSimPolicy}] :
      f["A"] # BasePolicy /\ f["B"] = BasePolicy }

InitOverlap ==
  /\ now = StartTime
  /\ killed = FALSE
  /\ killReason = ""
  /\ txHistory = [a \in Agents |-> <<>>]
  /\ lastTxTime = [a \in Agents |-> undefined]
  /\ calls = [c \in OverlapCalls |-> IdleCall]
  /\ config \in OverlapConfigs
  /\ ret = NoRet
  /\ approved = {}
  /\ lastKill = ""
  /\ ops = [a \in Agents |-> <<>>]
  /\ solo = [a \in Agents |-> [history |-> <<>>, lastTx |-> undefined]]
  /\ subm = [a \in Agents |-> NoSubm]
  /\ transactionLog = [a \in Agents |-> <<>>]
  /\ swarm = NoSwarm
  /\ nlp = NoNlp
  /\ runtime = NoRuntime
  /\ keyManager = NoKeyManager

\* evaluate is called with the policy of the agent, whatever the other calls do.
OverlapEvaluate(c, intent) ==
  /\ evaluate(c, "direct", intent, config[intent.agentId])
  /\ UNCHANGED <<subm, transactionLog, swarm, nlp, runtime, keyManager>>

NextOverlap ==
  \/ \E c \in OverlapCalls, intent \in SerialIntents : OverlapEvaluate(c, intent)
  \/ \E c \in OverlapCalls, r \in SimulationResults : SerialResume(c, r)
  \/ Tick(HALF_HOUR_MS, MaxTicks * HALF_HOUR_MS)

OverlapSpec == InitOverlap /\ [][NextOverlap]_vars

\* ---------------------------------------------- specification of the proposals
\* propose step by step: it waits before each vote, and voters and callbacks
\* can be registered while it waits.
ProposalIntents ==
  { SwarmIntent(TRANSFER_SOL, 15000000, 0), SwarmIntent(TRANSFER_SOL, 60000000, 0) }

\* The market sentiments the aggressive voter draws, in thousandths.
ProposalSentiments == {450}

InitProposal ==
  /\ now = StartTime
  /\ killed = FALSE
  /\ killReason = ""
  /\ txHistory = [a \in Agents |-> <<>>]
  /\ lastTxTime = [a \in Agents |-> undefined]
  /\ calls = [c \in Calls |-> IdleCall]
  /\ config = [a \in Agents |-> BasePolicy]
  /\ ret = NoRet
  /\ approved = {}
  /\ lastKill = ""
  /\ ops = [a \in Agents |-> <<>>]
  /\ solo = [a \in Agents |-> [history |-> <<>>, lastTx |-> undefined]]
  /\ subm = [a \in Agents |-> NoSubm]
  /\ transactionLog = [a \in Agents |-> <<>>]
  /\ swarm = NoSwarm
  /\ nlp = NoNlp
  /\ runtime = NoRuntime
  /\ keyManager = NoKeyManager

\* Mutant of Deliver: only the first callback is called.
Deliver_first(callbacks, item) ==
  [i \in 1..Len(callbacks) |-> IF i = 1 THEN Append(callbacks[i], item) ELSE callbacks[i]]

\* callbacks.forEach(cb => cb(item))
Deliver(callbacks, item) ==
  [i \in 1..Len(callbacks) |-> Append(callbacks[i], item)]

\* The ConsensusResult of a list of votes.
ConsensusResult(swarmConfig, intent, votes) ==
  LET approvalCount == Cardinality({ i \in 1..Len(votes) : votes[i].approved })
  IN [intent |-> intent, votes |-> votes,
      approved |-> QuorumMet(approvalCount, Len(votes), swarmConfig.quorum),
      quorum |-> swarmConfig.quorum,
      approvalRate |-> <<approvalCount, Len(votes)>>]

\* The end of propose, after the loop: the result is built, the onResult
\* callbacks are called and the result is returned.
ProposeReturns(sw, intent, votes, onVoteCallbacks) ==
  LET result == ConsensusResult(sw.config, intent, votes)
  IN [sw EXCEPT !.result = result,
                !.onVoteCallbacks = onVoteCallbacks,
                !.onResultCallbacks = Deliver(@, result),
                !.proposal = [pc |-> "returned", intent |-> intent, votes |-> votes,
                              atStart |-> @.atStart, registered |-> @.registered,
                              returns |-> 1 - @.returns]]

EngineUnchanged ==
  UNCHANGED <<now, killed, killReason, txHistory, lastTxTime, calls, config, ret,
              approved, lastKill, ops, solo, subm, transactionLog,
              nlp, runtime, keyManager>>

onVote ==
  /\ Len(swarm.onVoteCallbacks) < MaxCallbacks
  /\ swarm' = [swarm EXCEPT !.onVoteCallbacks = Append(@, <<>>)]
  /\ EngineUnchanged

onResult ==
  /\ Len(swarm.onResultCallbacks) < MaxCallbacks
  /\ swarm' = [swarm EXCEPT !.onResultCallbacks = Append(@, <<>>)]
  /\ EngineUnchanged

\* propose is called: it returns at once when there is no voter, else it waits
\* before the first vote.
ProposeCall(intent) ==
  LET cleared == [swarm EXCEPT
                    !.onVoteCallbacks = [i \in 1..Len(@) |-> <<>>],
                    !.onResultCallbacks = [i \in 1..Len(@) |-> <<>>],
                    !.proposal = [@ EXCEPT !.atStart = Len(swarm.onVoteCallbacks),
                                           !.registered = swarm.voters]]
  IN /\ swarm.proposal.pc # "voting"
     /\ swarm' = IF Len(swarm.voters) = 0
                   THEN ProposeReturns(cleared, intent, <<>>, cleared.onVoteCallbacks)
                   ELSE [cleared EXCEPT !.proposal =
                           [@ EXCEPT !.pc = "voting", !.intent = intent, !.votes = <<>>]]
     /\ EngineUnchanged

\* The delay ends: the next voter votes, the onVote callbacks are called, and
\* propose returns if that was the last voter.
ProposeVote(marketSentiment) ==
  LET i == Len(swarm.proposal.votes) + 1
      vote == evaluateVote(swarm.config, swarm.voters[i], swarm.proposal.intent,
                           marketSentiment)
      votes == Append(swarm.proposal.votes, vote)
      called == Deliver(swarm.onVoteCallbacks, vote)
  IN /\ swarm.proposal.pc = "voting"
     /\ (marketSentiment = NoSentiment) <=> (swarm.voters[i] # "aggressive")
     /\ swarm' = IF i = Len(swarm.voters)
                   THEN ProposeReturns(swarm, swarm.proposal.intent, votes, called)
                   ELSE [swarm EXCEPT !.onVoteCallbacks = called,
                                      !.proposal = [@ EXCEPT !.votes = votes]]
     /\ EngineUnchanged

NextProposal ==
  \/ \E perspective \in Perspectives : registerVoter(perspective)
  \/ onVote
  \/ onResult
  \/ \E intent \in ProposalIntents : ProposeCall(intent)
  \/ \E marketSentiment \in ProposalSentiments \cup {NoSentiment} :
       ProposeVote(marketSentiment)

ProposalSpec == InitProposal /\ [][NextProposal]_vars

\* ------------------------------------------------- specification of the parser
\* The agents that get registered: name, id, public key.
NlpAgents ==
  { AgentEntry(<<"q", "5">>, <<"Q">>, <<"A", "l">>),
    AgentEntry(<<"a", "a">>, <<"5", "Q">>, <<"L">>) }

UnchangedButNlp ==
  UNCHANGED <<now, killed, killReason, txHistory, lastTxTime, calls, config, ret,
              approved, lastKill, ops, solo, subm, transactionLog, swarm,
              runtime, keyManager>>

registerAgent(entry) ==
  /\ nlp' = [nlp EXCEPT !.agents =
               MapSet(MapSet(@, toLowerCase(entry.name), entry),
                      toLowerCase(entry.agentId), entry)]
  /\ UnchangedButNlp

setCurrentMint(mint) ==
  /\ nlp' = [nlp EXCEPT !.currentMint = mint]
  /\ UnchangedButNlp

Parse(input) ==
  /\ nlp' = [nlp EXCEPT !.input = input,
                        !.result = parse(nlp.agents, nlp.currentMint, input),
                        !.parses = 1 - @]
  /\ UnchangedButNlp

NextNlp ==
  \/ \E entry \in NlpAgents : registerAgent(entry)
  \/ setCurrentMint("Mint")
  \/ \E input \in NlpInputs : Parse(input)

NlpSpec == Init /\ [][NextNlp]_vars

\* ------------------------------------------------ specification of the runtime
\* The arguments of start: no maxCycles, or a number of cycles.
MaxCyclesArgs == {undefined} \cup 1..(MaxCycle - 1)

UnchangedButRuntime ==
  UNCHANGED <<now, killed, killReason, txHistory, lastTxTime, calls, config, ret,
              approved, lastKill, ops, solo, subm, transactionLog, swarm,
              nlp, keyManager>>

\* The test of the while loop of call k, and what follows it: the next cycle
\* begins, or the loop is left and start returns. The counter stops at
\* MaxCycle, which is above every maxCycles.
LoopTest(rt, k) ==
  LET maxCycles == rt.starts[k].maxCycles
  IN IF rt.running /\ (maxCycles = undefined \/ rt.cycle < maxCycles)
       THEN [rt EXCEPT !.cycle = Min(@ + 1, MaxCycle), !.starts[k].pc = "cycle"]
       ELSE [rt EXCEPT !.running = FALSE, !.starts[k].pc = "returned"]

\* start is called: it returns at once if the runtime is running, else it sets
\* running and awaits the balance.
start(k, maxCycles) ==
  /\ runtime.starts[k].pc = "idle"
  /\ runtime' = IF runtime.running
                   THEN [runtime EXCEPT !.starts[k].pc = "returned"]
                   ELSE [runtime EXCEPT !.running = TRUE, !.status = "ACTIVE",
                                        !.starts[k].pc = "balance",
                                        !.starts[k].maxCycles = maxCycles]
  /\ UnchangedButRuntime

\* getWalletInfo returns or throws: the loop is entered.
BalanceReturns(k) ==
  /\ runtime.starts[k].pc = "balance"
  /\ runtime' = LoopTest(runtime, k)
  /\ UnchangedButRuntime

\* runCycle returns (it catches its errors): start awaits sleep.
CycleReturns(k) ==
  /\ runtime.starts[k].pc = "cycle"
  /\ runtime' = [runtime EXCEPT !.starts[k].pc = "sleep"]
  /\ UnchangedButRuntime

\* sleep returns: the loop is tested again.
SleepReturns(k) ==
  /\ runtime.starts[k].pc = "sleep"
  /\ runtime' = LoopTest(runtime, k)
  /\ UnchangedButRuntime

InProgress(pc) == pc \in {"balance", "cycle", "sleep"}

stop ==
  /\ runtime' = [runtime EXCEPT
                   !.running = FALSE, !.status = "PAUSED",
                   !.starts = [k \in 1..MaxStarts |->
                                IF InProgress(@[k].pc) THEN [@[k] EXCEPT !.stopped = TRUE]
                                ELSE @[k]]]
  /\ UnchangedButRuntime

NextRuntime ==
  \/ \E k \in 1..MaxStarts, maxCycles \in MaxCyclesArgs : start(k, maxCycles)
  \/ \E k \in 1..MaxStarts : BalanceReturns(k)
  \/ \E k \in 1..MaxStarts : CycleReturns(k)
  \/ \E k \in 1..MaxStarts : SleepReturns(k)
  \/ stop

RuntimeSpec == Init /\ [][NextRuntime]_vars

\* Every await of start returns.
FairRuntimeSpec ==
  /\ RuntimeSpec
  /\ \A k \in 1..MaxStarts :
       WF_vars(BalanceReturns(k) \/ CycleReturns(k) \/ SleepReturns(k))

\* -------------------------------------------- specification of the key manager
UnchangedButKeys ==
  UNCHANGED <<now, killed, killReason, txHistory, lastTxTime, calls, config, ret,
              approved, lastKill, ops, solo, subm, transactionLog, swarm,
              nlp, runtime>>

\* createWallet throws if the file exists, else it generates a keypair and
\* saves it in the file of the agent.
createWallet(agentId) ==
  /\ keyManager.generated < MaxKeys
  /\ keyManager' =
       IF walletExists(keyManager.files, agentId) THEN keyManager
       ELSE [keyManager EXCEPT
               !.generated = @ + 1,
               !.files = MapSet(@, walletFilePath(agentId),
                                [agentId |-> agentId,
                                 publicKey |-> keyManager.generated + 1])]
  /\ UnchangedButKeys

\* destroyWallet: if the file exists, it is removed with the cached key.
destroyWallet(agentId) ==
  /\ keyManager' =
       IF walletExists(keyManager.files, agentId)
         THEN [keyManager EXCEPT
                 !.files = MapDelete(@, walletFilePath(agentId)),
                 !.keyCache = MapDelete(@, agentId)]
         ELSE keyManager
  /\ UnchangedButKeys

\* The end of an operation in its catch block: the key is released and the
\* result is { success: false, error }.
Caught(km, o) ==
  [km EXCEPT !.keyCache = releaseKey(@, km.ops[o].agentId), !.ops[o] = NoWalletOp,
             !.returned = WalletResult(km.ops[o].kind, FALSE, km.ops[o].pc = "audit")]

\* The answers of the network to simulateTransaction and to
\* sendAndConfirmTransaction: a value without error, a value with an error
\* (sendAndConfirmTransaction throws it), or a thrown error.
NetworkAnswers == {"ok", "err", "throws"}

\* simulateTransaction or executeTransaction is called: loadKey returns the
\* cached keypair, or reads the file and caches the keypair, or throws.
WalletOpCall(o, kind, agentId) ==
  LET km == keyManager
      op == [pc |-> "build", kind |-> kind, agentId |-> agentId]
  IN /\ km.ops[o].pc = "idle"
     /\ keyManager' =
          IF agentId \in DOMAIN km.keyCache THEN [km EXCEPT !.ops[o] = op]
          ELSE IF walletExists(km.files, agentId)
            THEN [km EXCEPT !.ops[o] = op,
                            !.keyCache = MapSet(@, agentId, getPublicKey(km.files, agentId))]
          ELSE [km EXCEPT !.keyCache = releaseKey(@, agentId),
                          !.returned = WalletResult(kind, FALSE, FALSE)]
     /\ UnchangedButKeys

\* buildTransaction returns or throws.
WalletOpBuilt(o, built) ==
  /\ keyManager.ops[o].pc = "build"
  /\ keyManager' = IF built THEN [keyManager EXCEPT !.ops[o].pc = "network"]
                   ELSE Caught(keyManager, o)
  /\ UnchangedButKeys

\* The simulation or the submission returns or throws: the key is released;
\* executeTransaction then awaits the details of the transaction.
WalletOpNetwork(o, answer) ==
  LET km == keyManager
  IN /\ km.ops[o].pc = "network"
     /\ keyManager' =
          IF km.ops[o].kind = "execute" /\ answer = "ok"
            THEN [km EXCEPT !.keyCache = releaseKey(@, km.ops[o].agentId),
                            !.ops[o].pc = "audit"]
          ELSE IF km.ops[o].kind = "simulate" /\ answer # "throws"
            THEN [km EXCEPT !.keyCache = releaseKey(@, km.ops[o].agentId),
                            !.ops[o] = NoWalletOp,
                            !.returned = WalletResult("simulate", answer = "ok", FALSE)]
          ELSE Caught(km, o)
     /\ UnchangedButKeys

\* getTransaction returns or throws.
WalletOpAudit(o, answered) ==
  /\ keyManager.ops[o].pc = "audit"
  /\ keyManager' = IF answered
                     THEN [keyManager EXCEPT
                             !.ops[o] = NoWalletOp,
                             !.returned = WalletResult("execute", TRUE, TRUE)]
                   ELSE Caught(keyManager, o)
  /\ UnchangedButKeys

NextKeys ==
  \/ \E agentId \in WalletIds : createWallet(agentId)
  \/ \E agentId \in WalletIds : destroyWallet(agentId)
  \/ \E o \in 1..MaxWalletOps, kind \in {"simulate", "execute"}, agentId \in WalletIds :
       WalletOpCall(o, kind, agentId)
  \/ \E o \in 1..MaxWalletOps, built \in BOOLEAN : WalletOpBuilt(o, built)
  \/ \E o \in 1..MaxWalletOps, answer \in NetworkAnswers : WalletOpNetwork(o, answer)
  \/ \E o \in 1..MaxWalletOps, answered \in BOOLEAN : WalletOpAudit(o, answered)

KeySpec == Init /\ [][NextKeys]_vars

\* The wallets of the agents of a policy engine: created, destroyed and
\* created again while the engine evaluates their intents.
NextWallet ==
  \/ \E agentId \in WalletIds : createWallet(agentId)
  \/ \E agentId \in WalletIds : destroyWallet(agentId)
  \/ \E intent \in Intents : Evaluate(1, "direct", intent, CooldownPolicy)
  \/ Tick(HALF_HOUR_MS, MaxTicks * HALF_HOUR_MS)

WalletSpec == Init /\ [][NextWallet]_vars

\* ------------------------------------------------------------- properties
HasViolation(r, check) ==
  \E i \in 1..Len(r.violations) : r.violations[i].check = check

\* In this step evaluate was called: it returned at once or it is suspended.
CallStep ==
  \/ ret'.kind = "simulate"
  \/ ret'.kind = "evaluation" /\ ~ret'.simulated

\* The approved operations of a list that are less than an hour old at time t.
RECURSIVE SpentLastHour(_, _)
SpentLastHour(list, t) ==
  IF Len(list) = 0 THEN 0
  ELSE (IF t - list[Len(list)].timestamp < HOUR_MS THEN list[Len(list)].lamports ELSE 0)
       + SpentLastHour(SubSeq(list, 1, Len(list) - 1), t)

CountLastHour(list, t) ==
  Cardinality({ i \in 1..Len(list) : t - list[i].timestamp < HOUR_MS })

\* C1: an evaluate called while the kill switch is active returns at once, with
\* allowed = false and exactly one violation, which names the reason of the
\* last kill(); no other check contributes and the simulation is not invoked.
C1_HaltDominance ==
  [][(killed /\ CallStep) =>
       /\ ret'.kind = "evaluation"
       /\ ~ret'.allowed
       /\ ~ret'.simulated
       /\ Len(ret'.violations) = 1
       /\ ret'.violations[1] = Violation("kill", lastKill, 0, 0)
       /\ calls' = calls]_vars

C1_Witness ==
  /\ killed /\ lastKill = "r2"
  /\ ret.kind = "evaluation" /\ ret.policy.requireSimulation
  /\ ret.violations = <<Violation("kill", "r2", 0, 0)>>
  /\ txHistory[ret.intent.agentId] # <<>>

\* C2: while the kill switch is active no evaluate returns allowed = true,
\* whatever the interleaving of kill() with the evaluate calls.
C2_NoApprovalWhileKilled ==
  (killed /\ ret.kind = "evaluation") => ~ret.allowed

\* C3: executeTransaction is called for an intent only after an evaluate of
\* that intent has returned allowed = true.
C3_ExecutionApproved ==
  ret.executedFor # "none" => ret.intent \in approved

\* C4: every evaluation returned by evaluate has allowed = (violations is empty).
C4_AllowedIffNoViolations ==
  ret.kind = "evaluation" => (ret.allowed <=> Len(ret.violations) = 0)

C4_Witness ==
  /\ ret.kind = "evaluation" /\ ~ret.allowed
  /\ killed /\ Len(ret.violations) = 1

\* C5: an evaluate that returns allowed = false leaves the history and the
\* last-transaction time of every agent unchanged.
C5_DeniedLeavesState ==
  [][(ret'.kind = "evaluation" /\ ~ret'.allowed) =>
       (txHistory' = txHistory /\ lastTxTime' = lastTxTime)]_vars

C5_Witness ==
  /\ ret.kind = "evaluation" /\ ~ret.allowed /\ ~killed
  /\ HasViolation(ret, "hourly")
  /\ txHistory[ret.intent.agentId] # <<>>

\* C6 as stated: evaluate reports an hourly-spend violation exactly when the
\* amounts approved for the agent in the last hour plus the amount of the
\* proposal exceed maxHourlySpendLamports.
C6_Original ==
  [][CallStep =>
       (HasViolation(ret', "hourly") <=>
          SpentLastHour(ops[ret'.intent.agentId], now) + getIntentAmount(ret'.intent)
            > ret'.policy.maxHourlySpendLamports)]_vars

\* C6 amended: the same, for an evaluate called while the kill switch is inactive.
C6_HourlyViolation ==
  [][(~killed /\ CallStep) =>
       (HasViolation(ret', "hourly") <=>
          SpentLastHour(ops[ret'.intent.agentId], now) + getIntentAmount(ret'.intent)
            > ret'.policy.maxHourlySpendLamports)]_vars

\* An approval that brings the total of the last hour exactly to the limit.
C6_Witness ==
  /\ ret.kind = "evaluation" /\ ret.allowed
  /\ Len(ops[ret.intent.agentId]) >= 2
  /\ SpentLastHour(ops[ret.intent.agentId], now) = ret.policy.maxHourlySpendLamports

\* The window scenario of an agent: its operations were all submitted less
\* than an hour after the first, and the returned evaluation is the last one.
InScenario(a) ==
  /\ ret.kind = "evaluation" /\ ret.intent.agentId = a
  /\ subm[a].n >= 1
  /\ now - subm[a].first < HOUR_MS
  /\ \A i \in 1..Len(ret.violations) : ret.violations[i].check = "hourly"

\* C7 as stated: the k-th operation is denied iff a1 + ... + ak > H.
C7_Original ==
  \A a \in Agents :
    InScenario(a) =>
      (~ret.allowed <=> subm[a].total > config[a].maxHourlySpendLamports)

\* C7 amended: the k-th operation is denied iff the sum of the amounts of the
\* approved operations among the first k-1, plus ak, exceeds H.
C7_Window ==
  \A a \in Agents :
    InScenario(a) =>
      (~ret.allowed <=>
         subm[a].prior + subm[a].amount > config[a].maxHourlySpendLamports)

\* An operation approved after an earlier one was denied.
C7_Witness ==
  /\ InScenario("A") /\ ret.allowed
  /\ subm["A"].n = 3
  /\ subm["A"].total > config["A"].maxHourlySpendLamports

\* The time of the most recent approval of a list of approved operations.
LastApproval(list) ==
  IF Len(list) = 0 THEN undefined ELSE list[Len(list)].timestamp

CooldownDue(list, t, policy) ==
  /\ LastApproval(list) # undefined
  /\ t - LastApproval(list) < policy.txCooldownMs

\* C8 as stated: a proposal gets a cooldown violation iff an operation of the
\* agent was approved less than txCooldownMs before.
C8_Original ==
  [][CallStep =>
       (HasViolation(ret', "cooldown") <=>
          CooldownDue(ops[ret'.intent.agentId], now, ret'.policy))]_vars

\* C8 amended: the same, for an evaluate called while the kill switch is inactive.
C8_Cooldown ==
  [][(~killed /\ CallStep) =>
       (HasViolation(ret', "cooldown") <=>
          CooldownDue(ops[ret'.intent.agentId], now, ret'.policy))]_vars

\* A proposal evaluated exactly txCooldownMs after an approval passes the check.
C8_Witness ==
  /\ ret.kind = "evaluation" /\ ret.allowed
  /\ ret.policy.txCooldownMs > 0
  /\ Len(ops["A"]) >= 2
  /\ ops["A"][Len(ops["A"])].timestamp - ops["A"][Len(ops["A"]) - 1].timestamp
       = ret.policy.txCooldownMs

\* No agent has more than maxTxPerHour approved operations in an hour: in any
\* interval (t - HOUR_MS, t] that ends at an approval.
RollingHourBound ==
  \A a \in Agents : \A i \in 1..Len(ops[a]) :
    Cardinality({ j \in 1..Len(ops[a]) :
                    /\ ops[a][j].timestamp <= ops[a][i].timestamp
                    /\ ops[a][i].timestamp - ops[a][j].timestamp < HOUR_MS })
      <= config[a].maxTxPerHour

\* C9 as stated: evaluate reports a rate-limit violation iff the agent has at
\* least maxTxPerHour approved operations in the last hour.
C9_Original ==
  [][CallStep =>
       (HasViolation(ret', "rate") <=>
          CountLastHour(ops[ret'.intent.agentId], now) >= ret'.policy.maxTxPerHour)]_vars

\* C9 amended: the same, for an evaluate called while the kill switch is
\* inactive; and no agent has more than maxTxPerHour approvals in an hour.
C9_RateLimit ==
  /\ [][(~killed /\ CallStep) =>
          (HasViolation(ret', "rate") <=>
             CountLastHour(ops[ret'.intent.agentId], now) >= ret'.policy.maxTxPerHour)]_vars
  /\ []RollingHourBound

C9_Witness ==
  /\ ret.kind = "evaluation" /\ ~killed
  /\ ret.violations = <<Violation("rate", "", ret.policy.maxTxPerHour,
                                  ret.policy.maxTxPerHour)>>

\* C10: the calls for the other agents change neither the verdicts of the calls
\* for an agent nor its hourly spend and count: they are those of an engine
\* that gets the calls of this agent only.
C10_Isolation ==
  /\ \A a \in Agents :
       /\ getHourlySpend(txHistory[a], now) = getHourlySpend(solo[a].history, now)
       /\ getRecentTxCount(txHistory[a], now) = getRecentTxCount(solo[a].history, now)
  /\ ret.kind \in {"evaluation", "simulate"} => ret.violations = ret.soloViolations

C10_Witness ==
  /\ ret.kind = "evaluation" /\ ret.intent.agentId = "B" /\ ret.allowed
  /\ getHourlySpend(txHistory["A"], now) = ret.policy.maxHourlySpendLamports
  /\ getRecentTxCount(txHistory["A"], now) = ret.policy.maxTxPerHour

\* C11: kill() and resume() change only the halt flag and its reason; while the
\* switch is active the evaluations of every agent are denied; and an evaluate
\* called while it is inactive returns the violations that follow from the
\* approvals made so far, as if no halt had occurred.
C11_HaltFrame ==
  [][/\ (killed' # killed \/ killReason' # killReason) =>
          (txHistory' = txHistory /\ lastTxTime' = lastTxTime /\ calls' = calls)
     /\ (killed /\ CallStep) => ~ret'.allowed
     /\ (~killed /\ CallStep) =>
          ret'.violations =
            SyncChecks(ret'.intent, ret'.policy, ops[ret'.intent.agentId],
                       LastApproval(ops[ret'.intent.agentId]), now)]_vars

\* resume() has returned and both agents have a recorded history.
C11_Witness ==
  /\ ret.kind = "resume" /\ ~killed
  /\ \A a \in Agents : txHistory[a] # <<>> /\ lastTxTime[a] # undefined

\* The names of the checks of a list of violations, in the order of the list.
CheckNames(violations) == [i \in 1..Len(violations) |-> violations[i].check]

\* <<name>> when a check fails, <<>> when it passes.
Failing(fails, name) == IF fails THEN <<name>> ELSE <<>>

\* The checks that an intent fails at time t when list holds the approved
\* operations of its agent, in the order of the pipeline.
FailingChecks(intent, policy, list, t) ==
  LET amount == IF intent.type \in {TRANSFER_SOL, SWAP} THEN intent.amount ELSE 0
  IN Failing(policy.minConfidence # undefined /\ intent.confidence < policy.minConfidence,
             "confidence")
     \o Failing(intent.type = TRANSFER_SOL /\ ~policy.allowSolTransfers, "sol_not_allowed")
     \o Failing(intent.type = TRANSFER_SPL /\ ~policy.allowSplTransfers, "spl_not_allowed")
     \o Failing(amount > policy.maxTransactionLamports, "per_tx")
     \o Failing(SpentLastHour(list, t) + amount > policy.maxHourlySpendLamports, "hourly")
     \o Failing(CooldownDue(list, t, policy), "cooldown")
     \o Failing(CountLastHour(list, t) >= policy.maxTxPerHour, "rate")
     \o Failing(intent.type = CUSTOM /\ intent.programId \notin policy.allowlistedPrograms,
                "allowlist")

C13_SimulationGate ==
  [][/\ CallStep =>
          (ret'.kind = "simulate" <=>
             /\ ~killed
             /\ FailingChecks(ret'.intent, ret'.policy, ops[ret'.intent.agentId], now) = <<>>
             /\ ret'.policy.requireSimulation)
     /\ \A c \in Calls :
          (calls[c].pc = "awaitSim" /\ calls'[c] # calls[c]) =>
             /\ calls'[c] = IdleCall
             /\ ret'.kind = "evaluation" /\ ret'.simulated
             /\ ret'.intent = calls[c].intent
             /\ ret'.simulationResult # NoSimulation
     /\ (ret'.kind = "evaluation" /\ ~ret'.simulated) =>
          ret'.simulationResult = NoSimulation]_vars

\* Under a policy that requires the simulation, an evaluation denied by an
\* earlier check, without a simulation.
C13_Witness ==
  /\ ret.kind = "evaluation" /\ ~killed /\ ret.policy.requireSimulation
  /\ ~ret.simulated /\ ret.simulationResult = NoSimulation
  /\ HasViolation(ret, "hourly")

\* C14: when the simulation fails, by a reported error or by an error thrown
\* and caught inside simulateTransaction, evaluate returns an evaluation with
\* allowed = false and the violation of the simulation, and records nothing.
C14_SimulationFailure ==
  [][(ret'.kind = "evaluation" /\ ret'.simulated /\ ~ret'.simulationResult.success) =>
       /\ ~ret'.allowed
       /\ ret'.violations = <<Violation("simulation", ret'.simulationResult.error, 0, 0)>>
       /\ txHistory' = txHistory /\ lastTxTime' = lastTxTime]_vars

\* A transport error during the simulation, for an agent that has a history.
C14_Witness ==
  /\ ret.kind = "evaluation" /\ ret.simulated /\ ~ret.allowed
  /\ ret.simulationResult = [success |-> FALSE, error |-> "fetch failed"]
  /\ txHistory[ret.intent.agentId] # <<>>

\* The entries of a history that are less than two hours old at time t.
YoungerThanTwoHours(history, t) ==
  SelectSeq(history, LAMBDA h : t - h.timestamp < TWO_HOURS_MS)

C16_ExecuteIffAllowed ==
  [][\A a \in Agents :
       /\ (ret'.kind = "evaluation" /\ ret'.intent.agentId = a) =>
            /\ Len(transactionLog'[a]) = Len(transactionLog[a]) + 1
            /\ SubSeq(transactionLog'[a], 1, Len(transactionLog[a])) = transactionLog[a]
            /\ LET e == transactionLog'[a][Len(transactionLog'[a])]
               IN /\ e.intent = ret'.intent
                  /\ e.allowed = ret'.allowed /\ e.violations = ret'.violations
                  /\ (e.executionResult \in ExecutionOutcomes) <=> ret'.allowed
                  /\ (e.executionResult = "undefined") <=> ~ret'.allowed
                  /\ (ret'.executedFor = a) <=> ret'.allowed
                  /\ (ret'.executedFor = "none") <=> ~ret'.allowed
       /\ ~(ret'.kind = "evaluation" /\ ret'.intent.agentId = a) =>
            transactionLog'[a] = transactionLog[a]]_vars

\* A denied intent logged after an executed one.
C16_Witness ==
  /\ Len(transactionLog["A"]) = 2
  /\ transactionLog["A"][1].allowed /\ transactionLog["A"][1].executionResult = "failed"
  /\ ~transactionLog["A"][2].allowed /\ transactionLog["A"][2].executionResult = "undefined"
  /\ ~killed /\ ret.kind = "evaluation" /\ ~ret.allowed

\* The number of approving votes of a result.
Approvals(result) ==
  Cardinality({ i \in 1..Len(result.votes) : result.votes[i].approved })

\* C17: with N >= 1 voters and quorum Q, the result of propose has
\* approvalRate = approvals / N and approved iff approvals / N >= Q.
C17_Quorum ==
  LET r == swarm.result
      n == Len(swarm.voters)
  IN (r # NoResult /\ n >= 1 /\ Len(r.votes) = n) =>
       /\ r.approvalRate = <<Approvals(r), n>>
       /\ r.quorum = swarm.config.quorum
       /\ r.approved <=> (Approvals(r) * 100 >= r.quorum * n)

\* Two voters and quorum 0.5: one approval meets the quorum exactly.
C17_Witness ==
  /\ swarm.result # NoResult /\ swarm.result.approved
  /\ swarm.config.quorum = 50
  /\ swarm.result.approvalRate = <<1, 2>>

\* The votes of a result that were cast from a perspective.
VotesOf(result, perspective) ==
  { i \in 1..Len(result.votes) : result.votes[i].perspective = perspective }

\* C18: a conservative voter approves iff the normalized amount is at most
\* conservativeThreshold, a systematic voter iff it is at most twice
\* systematicNorm; vote and confidence follow from the amount, without a draw.
C18_FixedCutoffs ==
  LET r == swarm.result
      amountSol == getIntentAmountInSol(r.intent)
  IN r # NoResult =>
       /\ \A i \in VotesOf(r, "conservative") :
            /\ r.votes[i].approved <=> amountSol <= swarm.config.conservativeThreshold
            /\ r.votes[i].confidence = IF r.votes[i].approved THEN 7000 ELSE 3000
            /\ r.votes[i].sentiment = NoSentiment
       /\ \A i \in VotesOf(r, "systematic") :
            /\ r.votes[i].approved <=> amountSol <= 2 * swarm.config.systematicNorm
            /\ r.votes[i].confidence = IF r.votes[i].approved THEN 8000 ELSE 3500
            /\ r.votes[i].sentiment = NoSentiment
       /\ swarm.config = DefaultSwarmConfig =>
            /\ \A i \in VotesOf(r, "conservative") :
                 r.votes[i].approved <=> (amountSol <= 15000000)
            /\ \A i \in VotesOf(r, "systematic") :
                 r.votes[i].approved <=> (amountSol <= 10000000)

\* A token amount of exactly 0.015: the conservative voter approves, the
\* systematic voter rejects.
C18_Witness ==
  /\ swarm.result # NoResult /\ swarm.config = DefaultSwarmConfig
  /\ swarm.result.intent = SwarmIntent(TRANSFER_SPL, 15000, 6)
  /\ \E i \in VotesOf(swarm.result, "conservative") : swarm.result.votes[i].approved
  /\ \E i \in VotesOf(swarm.result, "systematic") : ~swarm.result.votes[i].approved

\* C19: an aggressive voter approves iff the amount is at most riskTolerance,
\* or at most three times riskTolerance with a sentiment above 0.45; with the
\* defaults it approves every amount up to 0.02 SOL and rejects every amount
\* above 0.06 SOL.
C19_Aggressive ==
  LET r == swarm.result
      amountSol == getIntentAmountInSol(r.intent)
      rt == swarm.config.aggressiveRiskTolerance
  IN r # NoResult =>
       \A i \in VotesOf(r, "aggressive") :
         /\ r.votes[i].sentiment \in Sentiments
         /\ r.votes[i].approved <=>
              \/ amountSol <= rt
              \/ amountSol <= 3 * rt /\ r.votes[i].sentiment > 450
         /\ swarm.config = DefaultSwarmConfig =>
              /\ amountSol <= 20000000 => r.votes[i].approved
              /\ amountSol > 60000000 => ~r.votes[i].approved

\* 0.06 SOL with a sentiment above 0.45 is approved.
C19_Witness ==
  /\ swarm.result # NoResult /\ swarm.config = DefaultSwarmConfig
  /\ swarm.result.intent = SwarmIntent(TRANSFER_SOL, 60000000, 0)
  /\ \E i \in VotesOf(swarm.result, "aggressive") :
       swarm.result.votes[i].approved /\ swarm.result.votes[i].sentiment = 460

\* C20: with one aggressive, one conservative and one systematic voter, the
\* default thresholds and quorum 0.6, a proposal whose amount is above the
\* conservative and the systematic cutoffs is rejected.
C20_LargeRejected ==
  LET r == swarm.result
      amountSol == getIntentAmountInSol(r.intent)
  IN (/\ r # NoResult /\ swarm.config = DefaultSwarmConfig
      /\ Len(r.votes) = 3
      /\ \A p \in Perspectives : Cardinality(VotesOf(r, p)) = 1
      /\ amountSol > swarm.config.conservativeThreshold
      /\ amountSol > 2 * swarm.config.systematicNorm)
     => ~r.approved

\* 0.02 SOL: the aggressive voter approves and the proposal is rejected.
C20_Witness ==
  /\ swarm.result # NoResult /\ swarm.config = DefaultSwarmConfig
  /\ Len(swarm.result.votes) = 3
  /\ \A p \in Perspectives : Cardinality(VotesOf(swarm.result, p)) = 1
  /\ swarm.result.intent = SwarmIntent(TRANSFER_SOL, 20000000, 0)
  /\ swarm.result.approvalRate = <<1, 3>> /\ ~swarm.result.approved

\* In this step a call of propose returns.
ProposeReturned == swarm'.proposal.returns # swarm.proposal.returns

ParseReturned == nlp'.parses # nlp.parses

\* The agent registered under a name or an id equal to the text but for case.
Registered(agents, text) ==
  { e \in { agents[k] : k \in DOMAIN agents } :
      toLowerCase(text) \in {toLowerCase(e.name), toLowerCase(e.agentId)} }

\* C22: a target that matches a registered name or id, whatever the case,
\* resolves to the public key of that agent; else a target that is a valid
\* public key is the recipient exactly as written; else parse returns unknown.
C22_TargetResolution ==
  [][(ParseReturned /\ nlp'.input.command = "send sol") =>
       LET target == nlp'.input.target
           result == nlp'.result
       IN IF Registered(nlp.agents, target) # {}
            THEN /\ result.type = "transfer_sol"
                 /\ \E e \in Registered(nlp.agents, target) : result.recipient = e.publicKey
          ELSE IF IsPublicKey(target)
            THEN result.type = "transfer_sol" /\ result.recipient = target
          ELSE result.type = "unknown"]_vars

\* The part of C22 about registered targets and about invalid ones.
C22_Registered ==
  [][(ParseReturned /\ nlp'.input.command = "send sol") =>
       LET target == nlp'.input.target
           result == nlp'.result
       IN IF Registered(nlp.agents, target) # {}
            THEN /\ result.type = "transfer_sol"
                 /\ \E e \in Registered(nlp.agents, target) : result.recipient = e.publicKey
          ELSE (~IsPublicKey(target) /\ ~IsPublicKey(toLowerCase(target)))
                  => result.type = "unknown"]_vars

\* A valid public key written with a capital letter was sent to another key.
C22_WrongRecipient ==
  /\ nlp.result.type = "transfer_sol"
  /\ IsPublicKey(nlp.input.target)
  /\ Registered(nlp.agents, nlp.input.target) = {}
  /\ nlp.result.recipient # nlp.input.target

\* C23, safety: a call of start during which stop was called starts no
\* further cycle.
C23_NoCycleAfterStop ==
  [][\A k \in 1..MaxStarts :
       runtime.starts[k].stopped =>
         ~(runtime.starts[k].pc # "cycle" /\ runtime'.starts[k].pc = "cycle")]_vars

\* C23, termination: a call of start during which stop was called returns.
C23_StopReturns ==
  \A k \in 1..MaxStarts :
    runtime.starts[k].stopped ~> (runtime.starts[k].pc = "returned")

\* C23, termination with maxCycles: a call of start with maxCycles returns, and
\* if stop was not called during it, the counter has reached maxCycles then.
C23_MaxCyclesReturns ==
  \A k \in 1..MaxStarts :
    (InProgress(runtime.starts[k].pc) /\ runtime.starts[k].maxCycles # undefined)
      ~> (runtime.starts[k].pc = "returned")

\* C23: when start returns, the runtime is not running.
C23_NotRunning ==
  [][\A k \in 1..MaxStarts :
       (InProgress(runtime.starts[k].pc) /\ runtime'.starts[k].pc = "returned")
         => /\ ~runtime'.running
            /\ (~runtime'.starts[k].stopped /\ runtime.starts[k].maxCycles # undefined)
                 => runtime'.cycle >= runtime.starts[k].maxCycles]_vars

\* A call of start was stopped and began a cycle after that.
C23_CycleAfterStop ==
  \E k \in 1..MaxStarts :
    /\ runtime.starts[k].stopped /\ runtime.starts[k].pc = "cycle"
    /\ \E j \in 1..MaxStarts : j # k /\ InProgress(runtime.starts[j].pc)

\* C24: destroyWallet removes the stored key and the cached key of the agent
\* and wipes its state in the policy engine: no history, no cooldown.
C24_DestroyWipes ==
  [][\A a \in Agents :
       (walletExists(keyManager.files, <<a>>) /\ ~walletExists(keyManager'.files, <<a>>))
         => /\ <<a>> \notin DOMAIN keyManager'.keyCache
            /\ txHistory'[a] = <<>>
            /\ lastTxTime'[a] = undefined]_vars

\* The wallet of agent A does not exist and the engine has its history.
C24_HistorySurvives ==
  /\ ~walletExists(keyManager.files, <<"A">>)
  /\ keyManager.generated > 0
  /\ txHistory["A"] # <<>>
  /\ lastTxTime["A"] # undefined

\* C25: two distinct agent ids that have a wallet have distinct wallets.
C25_DistinctWallets ==
  \A i, j \in WalletIds :
    (i # j /\ walletExists(keyManager.files, i) /\ walletExists(keyManager.files, j))
      => getPublicKey(keyManager.files, i) # getPublicKey(keyManager.files, j)

\* An operation of the wallet service is in progress for the agent.
Operating(agentId) ==
  \E o \in 1..MaxWalletOps :
    keyManager.ops[o].pc # "idle" /\ keyManager.ops[o].agentId = agentId

\* C29: the key cache holds no key of an agent for which no simulation and no
\* execution is in progress.
C29_KeyReleased ==
  \A agentId \in WalletIds : ~Operating(agentId) => agentId \notin DOMAIN keyManager.keyCache

\* Two operations on one agent overlapped: the first has released the key, the
\* second is still in progress.
C29_Witness ==
  \E o, q \in 1..MaxWalletOps :
    /\ o # q
    /\ keyManager.ops[o].pc = "audit" /\ keyManager.ops[q].pc = "network"
    /\ keyManager.ops[o].agentId = keyManager.ops[q].agentId
    /\ keyManager.ops[o].agentId \notin DOMAIN keyManager.keyCache

\* C26: an evaluation that follows at once a denied evaluation of the same
\* intent under the same policy, with the state, the kill switch and the clock
\* as they were, returns the same allowed and the same violations.
C26_SameVerdict ==
  [][(/\ ret.kind = "evaluation" /\ ~ret.allowed /\ ~ret.simulated
      /\ CallStep
      /\ ret'.intent = ret.intent /\ ret'.policy = ret.policy) =>
       /\ ret'.kind = "evaluation"
       /\ ret'.allowed = ret.allowed
       /\ ret'.violations = ret.violations
       /\ txHistory' = txHistory /\ lastTxTime' = lastTxTime]_vars

\* A denied evaluation of an agent with a history, by checks that read it.
C26_Witness ==
  /\ ret.kind = "evaluation" /\ ~ret.allowed /\ ~ret.simulated /\ ~killed
  /\ HasViolation(ret, "cooldown") /\ HasViolation(ret, "rate")
  /\ HasViolation(ret, "allowlist")
  /\ txHistory[ret.intent.agentId] # <<>>

C28_Allowlist ==
  [][(~killed /\ CallStep) =>
       /\ HasViolation(ret', "allowlist") <=>
            (/\ ret'.intent.type = CUSTOM
             /\ ret'.intent.programId \notin ret'.policy.allowlistedPrograms)
       /\ ret'.intent.type \in {TRANSFER_SOL, TRANSFER_SPL, SWAP} =>
            ~HasViolation(ret', "allowlist")]_vars

\* A CUSTOM intent denied for its program alone.
C28_Witness ==
  /\ ret.kind = "evaluation" /\ ~killed
  /\ ret.intent.type = CUSTOM /\ ret.intent.programId = "P2"
  /\ CheckNames(ret.violations) = <<"allowlist">>

\* C30: under a fixed policy, also when the evaluations of an agent overlap,
\* the operations approved for it in any hour, that is in any interval
\* (t - HOUR_MS, t] that ends at an approval, sum to maxHourlySpendLamports at
\* most and are maxTxPerHour at most.
C30_RollingHourCaps ==
  /\ RollingHourBound
  /\ \A a \in Agents : \A i \in 1..Len(ops[a]) :
       SpentLastHour(SubSeq(ops[a], 1, i), ops[a][i].timestamp)
         <= config[a].maxHourlySpendLamports

\* Two evaluations overlapped and both were approved: the agent has spent
\* more than its hourly limit.
C30_Overspent ==
  /\ Len(ops["A"]) = 2
  /\ ops["A"][1].timestamp = ops["A"][2].timestamp
  /\ SpentLastHour(ops["A"], now) > config["A"].maxHourlySpendLamports
  /\ getHourlySpend(txHistory["A"], now) > config["A"].maxHourlySpendLamports

\* C31: an operation that the runtime of an agent executes was checked against
\* the policy state of that agent and is recorded in it.
C31_OwnPolicyState ==
  [][\A x \in Agents :
       (ret'.kind = "evaluation" /\ ret'.allowed /\ ret'.executedFor = x) =>
          /\ SyncChecks(ret'.intent, ret'.policy, txHistory[x], lastTxTime[x], now) = <<>>
          /\ lastTxTime'[x] = now
          /\ txHistory'[x] # <<>>
          /\ txHistory'[x][Len(txHistory'[x])]
               = [timestamp |-> now, lamports |-> getIntentAmount(ret'.intent)]]_vars

\* The runtime of agent A has executed an operation and the policy state of
\* agent A is empty: the operation was recorded for agent B.
C31_Escaped ==
  /\ Len(transactionLog["A"]) = 1 /\ transactionLog["B"] = <<>>
  /\ transactionLog["A"][1].executionResult = "confirmed"
  /\ txHistory["A"] = <<>> /\ lastTxTime["A"] = undefined
  /\ Len(txHistory["B"]) = 1

\* The calls of start that are in their loop: in a cycle, or asleep between
\* two cycles.
Looping == { k \in 1..MaxStarts : runtime.starts[k].pc \in {"cycle", "sleep"} }

\* C32: at most one loop of the runtime is active, whatever the order of the
\* calls of start and stop.
C32_OneLoop == Cardinality(Looping) <= 1

\* Two loops run cycles at once, one of them stopped before the other began.
C32_TwoLoops ==
  \E j, k \in 1..MaxStarts :
    /\ j # k
    /\ runtime.starts[j].pc = "cycle" /\ runtime.starts[k].pc = "cycle"
    /\ runtime.starts[j].stopped /\ ~runtime.starts[k].stopped
    /\ runtime.running

C34_PurgeInvisible ==
  /\ [](\A a \in Agents :
          /\ getHourlySpend(txHistory[a], now) = getHourlySpend(ops[a], now)
          /\ getRecentTxCount(txHistory[a], now) = getRecentTxCount(ops[a], now))
  /\ [][(CallStep /\ ~killed) =>
          ret'.violations = SyncChecks(ret'.intent, ret'.policy,
                                       ops[ret'.intent.agentId],
                                       lastTxTime[ret'.intent.agentId], now)]_vars

\* An evaluation returned for an agent whose history lost an operation to the
\* purge while another of its operations is still in the last hour.
C34_Witness ==
  /\ ret.kind = "evaluation" /\ ret.intent.agentId = "A" /\ ~killed
  /\ Len(ops["A"]) > Len(txHistory["A"])
  /\ getRecentTxCount(txHistory["A"], now) > 0

\* The amounts of the approved operations of a log of cycles.
RECURSIVE LoggedSpend(_)
LoggedSpend(log) ==
  IF log = <<>> THEN 0
  ELSE (IF Head(log).allowed THEN getIntentAmount(Head(log).intent) ELSE 0)
       + LoggedSpend(Tail(log))

LoggedApprovals(log) == SelectSeq(log, LAMBDA e : e.allowed)

\* C35: an approved operation is recorded at its approval and stays recorded
\* whether its execution is confirmed or fails: the hourly count and the hourly
\* spend of an agent are those of all the approved operations of its cycles,
\* the failed ones included, the cooldown runs from the last approval, and each
\* approved operation is recorded and executed once.
C35_FailedStaysRecorded ==
  \A a \in Agents :
    LET log == transactionLog[a]
    IN /\ getRecentTxCount(txHistory[a], now) = Len(LoggedApprovals(log))
       /\ getHourlySpend(txHistory[a], now) = LoggedSpend(log)
       /\ Len(ops[a]) = Len(LoggedApprovals(log))
       /\ (Len(LoggedApprovals(log)) > 0 => lastTxTime[a] = now)
       /\ \A i \in 1..Len(log) :
            log[i].executionResult = "undefined" <=> ~log[i].allowed

\* The execution of an approved operation of A failed, and a later cycle of A
\* was evaluated against the state that still holds it.
C35_Witness ==
  LET log == transactionLog["A"]
  IN /\ Len(log) = 2
     /\ log[1].allowed /\ log[1].executionResult = "failed"
     /\ ~log[2].allowed /\ log[2].violations[1].check # "kill"
     /\ Len(txHistory["A"]) = 1

\* C36: executeTransaction reports success = false only for a transaction that
\* was not confirmed, also when getTransaction fails after the confirmation.
C36_ConfirmedNeverFailed ==
  (keyManager.returned.kind = "execute" /\ ~keyManager.returned.success)
    => ~keyManager.returned.confirmed

\* executeTransaction returned success = true for a confirmed transaction.
C36_Reported ==
  /\ keyManager.returned.kind = "execute"
  /\ keyManager.returned.success /\ keyManager.returned.confirmed

\* C37: a proposal made to a swarm without voters returns approved = false,
\* with no vote and the rate 0 / 0.
C37_EmptySwarmRejects ==
  (swarm.result.intent.type # "none" /\ swarm.result.votes = <<>>)
    => (~swarm.result.approved /\ swarm.result.approvalRate = <<0, 0>>)

\* propose returned for a swarm in which no voter was registered.
C37_Witness ==
  /\ swarm.voters = <<>>
  /\ swarm.result.intent.type # "none" /\ swarm.result.votes = <<>>
  /\ swarm.result.quorum = swarm.config.quorum

\* C38: the voters of a round are exactly those registered when propose was
\* called: the result of a returned round holds one vote for each of them, in
\* the order of registration, and no other vote.
C38_RoundVoters ==
  swarm.proposal.pc = "returned" =>
    LET votes == swarm.result.votes
        registered == swarm.proposal.registered
    IN /\ Len(votes) = Len(registered)
       /\ \A i \in 1..Len(votes) : votes[i].perspective = registered[i]

\* A round returned with the votes of the voters registered at its call.
C38_Returned ==
  /\ swarm.proposal.pc = "returned"
  /\ Len(swarm.proposal.registered) = 2 /\ Len(swarm.result.votes) = 2

\* The result of a round of exactly the three default voters, one of each
\* perspective, under the default configuration.
DefaultRound(result) ==
  /\ swarm.config = DefaultSwarmConfig
  /\ result.intent.type # "none"
  /\ Len(result.votes) = 3
  /\ \A p \in Perspectives : \E i \in 1..3 : result.votes[i].perspective = p

\* C39: with the three default voters, one of each perspective, and the quorum
\* of 0.6, the decision depends on the amount alone: whatever sentiment the
\* aggressive voter draws, the proposal is approved if and only if its amount
\* is at most 0.015 SOL.
C39_AmountDecides ==
  DefaultRound(swarm.result) =>
    (swarm.result.approved <=>
       getIntentAmountInSol(swarm.result.intent) <= DEFAULT_CONSERVATIVE_THRESHOLD)

\* The sentiment drawn made the aggressive voter approve an amount above its
\* risk tolerance, and the round of the three voters rejected the proposal.
C39_Witness ==
  /\ DefaultRound(swarm.result)
  /\ getIntentAmountInSol(swarm.result.intent) > DEFAULT_AGGRESSIVE_RISK_TOLERANCE
  /\ \E i \in 1..3 : /\ swarm.result.votes[i].perspective = "aggressive"
                      /\ swarm.result.votes[i].approved
                      /\ swarm.result.votes[i].sentiment = 460
  /\ ~swarm.result.approved

\* C40: an intent of a type without an amount rule (STAKE) is never approved
\* by evaluate.
C40_StakeRejected ==
  (ret.kind = "evaluation" /\ ret.intent.type = STAKE) => ~ret.allowed

\* A STAKE intent was approved without simulation and recorded with the amount 0.
C40_StakeApproved ==
  /\ ret.kind = "evaluation" /\ ret.intent.type = STAKE
  /\ ret.allowed /\ ~ret.simulated
  /\ Len(txHistory["A"]) > 0
  /\ txHistory["A"][Len(txHistory["A"])].lamports = 0

====
